---- MODULE Spec2Model ----
(***************************************************************************)
(* Model of the authorization-gated tool-calling handlers of DFTP-MCP.     *)
(*                                                                         *)
(* One turn of one handler graph is modelled:                              *)
(*   START -> call_model -> (_should_continue) -> handle_tool_calls        *)
(*         -> call_model -> ... -> END                                     *)
(* The repository holds five variants of the handler graph; the variable   *)
(* `handler` selects the one that runs the turn:                           *)
(*   "agent"   backend/src/agent/graph.py       (authz, outer try/except)  *)
(*   "recon_b" backend/src/recon_agent/graph.py (same code, own table)     *)
(*   "order"   backend/src/order_agent/graph.py and src/agent/graph.py     *)
(*             (no per-tool authz, outer try/except)                       *)
(*   "nav"     src/nav_agent/graph.py (no authz, no outer try/except,      *)
(*             messages channel without reducer, finalize_response node)   *)
(*   "recon_s" src/recon_agent/graph.py (no authz, fail-closed gate,       *)
(*             no outer try/except)                                        *)
(*                                                                         *)
(* langgraph's interrupt() is modelled by its contract: the k-th call of   *)
(* interrupt() inside one node execution returns the k-th resume value     *)
(* delivered to that node, and raises GraphInterrupt (an Exception         *)
(* subclass) when no such value has been delivered yet; a node that lets   *)
(* GraphInterrupt escape is suspended, its writes are dropped, and it is   *)
(* executed again from its first line when a resume value arrives.         *)
(***************************************************************************)
EXTENDS Integers, Sequences, FiniteSets, TLC

\* ---------------------------------------------------------------- bounds
MaxCalls == 2

\* ------------------------------------------------------------ tool names
ToolNames == {"takeAction", "getPosition", "create_resource",
              "upload_reconciliation_files"}

Chars(n) ==
  CASE n = "takeAction" -> <<"t","a","k","e","A","c","t","i","o","n">>
    [] n = "getPosition" -> <<"g","e","t","P","o","s","i","t","i","o","n">>
    [] n = "create_resource" ->
         <<"c","r","e","a","t","e","_","r","e","s","o","u","r","c","e">>
    [] n = "upload_reconciliation_files" ->
         <<"u","p","l","o","a","d","_","r","e","c","o","n","c","i","l","i",
           "a","t","i","o","n","_","f","i","l","e","s">>

UpperToLower ==
  ("A" :> "a") @@ ("B" :> "b") @@ ("C" :> "c") @@ ("D" :> "d") @@
  ("E" :> "e") @@ ("F" :> "f") @@ ("G" :> "g") @@ ("H" :> "h") @@
  ("I" :> "i") @@ ("J" :> "j") @@ ("K" :> "k") @@ ("L" :> "l") @@
  ("M" :> "m") @@ ("N" :> "n") @@ ("O" :> "o") @@ ("P" :> "p") @@
  ("Q" :> "q") @@ ("R" :> "r") @@ ("S" :> "s") @@ ("T" :> "t") @@
  ("U" :> "u") @@ ("V" :> "v") @@ ("W" :> "w") @@ ("X" :> "x") @@
  ("Y" :> "y") @@ ("Z" :> "z")

\* str.lower()
Lower(s) ==
  [i \in 1..Len(s) |->
     IF s[i] \in DOMAIN UpperToLower THEN UpperToLower[s[i]] ELSE s[i]]

\* `keyword in text` on strings
Contains(text, keyword) ==
  \E i \in 1..(Len(text) - Len(keyword) + 1) :
     SubSeq(text, i, i + Len(keyword) - 1) = keyword

WriteKeywords5 ==
  { <<"c","r","e","a","t","e">>, <<"u","p","d","a","t","e">>,
    <<"d","e","l","e","t","e">>, <<"a","d","d">>,
    <<"r","e","m","o","v","e">> }

WriteKeywords7 == WriteKeywords5 \cup { <<"p","o","s","t">>, <<"p","u","t">> }

SafeTools == {"upload_nav_file", "check_nav_service_health"}


\* _is_write_operation(tool_name), per handler variant
IsWriteOperation(h, n) ==
  IF h = "recon_s"
    THEN \E kw \in WriteKeywords5 : Contains(Lower(Chars(n)), kw)
    ELSE IF h = "nav" /\ n \in SafeTools
      THEN FALSE
      ELSE \E kw \in WriteKeywords7 : Contains(Lower(Chars(n)), kw)

\* Operations whose execution changes external state according to the
\* repository itself: upload_reconciliation_files POSTs the files and the
\* reconciliation prompt states "All uploads are WRITE operations and require
\* approval"; create_resource is the create operation of the unit tests.
\* _is_write_operation tabulated once for the names of the model
IsWriteTable ==
  [h \in {"agent", "recon_b", "order", "nav", "recon_s"} |->
     [n \in ToolNames |-> IsWriteOperation(h, n)]]

DocumentedMutating == {"upload_reconciliation_files", "create_resource"}

\* ------------------------------------------------- authorization table
ROLE_ADMIN == "ROLE_ADMIN"
ROLE_DISTRIBUTOR == "ROLE_DISTRIBUTOR"
ROLE_FUND == "ROLE_FUND"
Roles == {ROLE_ADMIN, ROLE_DISTRIBUTOR, ROLE_FUND}

\* TOOL_ROLE_MAP of the handler, restricted to ToolNames (a function whose
\* domain is the set of names present in the table).
TOOL_ROLE_MAP(h) ==
  IF h = "agent"
    THEN ("takeAction" :> {ROLE_ADMIN}) @@
         ("getPosition" :> {ROLE_ADMIN, ROLE_DISTRIBUTOR, ROLE_FUND})
    ELSE IF h = "recon_b"
      THEN ("upload_reconciliation_files" :> {ROLE_ADMIN})
      ELSE << >>

\* set(list): the elements of a sequence
ToSet(seq) == { seq[i] : i \in 1..Len(seq) }

IsToolAuthorizedFailOpen(h, tool_name, roles) ==
  IF tool_name \notin DOMAIN TOOL_ROLE_MAP(h)
    THEN ToSet(roles) # {}
    ELSE (ToSet(roles) \cap TOOL_ROLE_MAP(h)[tool_name]) # {}

\* _is_tool_authorized(tool_name, user_context)
IsToolAuthorized(h, tool_name, roles) ==
  LET user_roles == ToSet(roles)
  IN IF user_roles = {}
       THEN FALSE
       ELSE IF tool_name \notin DOMAIN TOOL_ROLE_MAP(h)
         THEN FALSE
         ELSE IF TOOL_ROLE_MAP(h)[tool_name] = {}
           THEN FALSE
           ELSE (user_roles \cap TOOL_ROLE_MAP(h)[tool_name]) # {}

\* ------------------------------------------------------ handler variants
HandlerNames == {"agent", "recon_b", "order", "nav", "recon_s"}

\* the handler checks _is_tool_authorized (tool filter and per call)
HasAuthz(h) == h \in {"agent", "recon_b"}

\* the loop of handle_tool_calls sits inside `try: ... except Exception`
OuterTry(h) == h \in {"agent", "recon_b", "order"}

\* all_tools / tools_list: what the MCP servers and the local tools offer
ServerTools(h) ==
  CASE h = "agent" -> {"takeAction", "getPosition", "create_resource"}
    [] h = "recon_b" -> {"upload_reconciliation_files", "create_resource"}
    [] h = "order" -> {"create_resource", "getPosition"}
    [] h = "nav" -> {"create_resource", "getPosition"}
    [] h = "recon_s" -> {"upload_reconciliation_files"}

GetToolsUnfiltered(h, roles) == ServerTools(h)

\* _get_mcp_tools(user_context) / _get_tools(user_context): names returned
GetTools(h, roles) ==
  IF HasAuthz(h)
    THEN { n \in ServerTools(h) : IsToolAuthorized(h, n, roles) }
    ELSE ServerTools(h)


\* ------------------------------------------------------------ data values
\* argument maps, as sets of <<key, value>> pairs
A1 == { <<"id", 1>> }
A2 == { <<"id", 2>> }
EmptyArgs == {}
OrigArgs == { A1 }

\* user_context["roles"] as delivered by the auth layer (a list)
RoleLists == { << >>, <<ROLE_ADMIN>>, <<ROLE_DISTRIBUTOR, ROLE_FUND>> }

CallIds == << "c1", "c2", "c3", "c4", "c5", "c6", "c7", "c8", "c9", "c10",
              "c11", "c12", "c13", "c14", "c15", "c16" >>

\* Values interrupt() can return on resume.  isCommand: the value is a
\* langgraph Command; hasResume: its .resume is a non-empty dict; type:
\* resume["type"]; hasArgs/args: resume["args"].  A value with isCommand
\* FALSE is a plain dict carrying the same keys.
RV(c, r, t, h, a) ==
  [isCommand |-> c, hasResume |-> r, type |-> t, hasArgs |-> h, args |-> a]

Approve == RV(TRUE, TRUE, "approve", FALSE, EmptyArgs)
ApproveWithEdits(a) == RV(TRUE, TRUE, "edit", TRUE, a)
Reject == RV(TRUE, TRUE, "reject", FALSE, EmptyArgs)
CommandNoResume == RV(TRUE, FALSE, "none", FALSE, EmptyArgs)
PlainReject == RV(FALSE, TRUE, "reject", FALSE, EmptyArgs)

ResumeValues ==
  { Approve, ApproveWithEdits(A2), ApproveWithEdits(EmptyArgs), Reject,
    CommandNoResume, PlainReject }

\* outcome of tool.ainvoke: a result, an exception, or a returned string
\* that starts with "Error" (the upload tools report failures that way; only
\* src/recon_agent looks at the prefix, elsewhere it is a result like any)
Outcomes(h) == IF h = "recon_s" THEN {"ok", "raise", "errstr"}
                                ELSE {"ok", "raise"}

\* ---------------------------------------------------------------- messages
ToolMessage(content, names, id) ==
  [type |-> "tool", content |-> content, names |-> names,
   tool_call_id |-> id, tool_calls |-> << >>]

AIMessage(content, calls) ==
  [type |-> "ai", content |-> content, names |-> {},
   tool_call_id |-> "", tool_calls |-> calls]

HumanMessage ==
  [type |-> "human", content |-> "request", names |-> {},
   tool_call_id |-> "", tool_calls |-> << >>]

DeniedText == "You are not authorized to perform this operation."
RejectedText == "Operation '{tool_name}' was rejected by the user."
UploadRejectedText == "Upload rejected by user."
NotFoundText == "Tool '{tool_name}' not found in available tools"
ReconNotFoundText == "Tool not found: {tool_name}"
ExecErrorText == "Error executing tool: {e}"
ReconExecErrorText == "Tool execution error: {e}"
BatchErrorText == "Error processing tool calls: {e}"
ToolErrorText == "Error: {tool-reported failure}"
ObservationText == "{observation}"

\* str(content).startswith("Error")
StartsWithError(content) ==
  content \in {ExecErrorText, BatchErrorText, ToolErrorText}

DenialMessageNamed(c) == ToolMessage(DeniedText, {c.name}, c.id)

\* the ToolMessage of the [AUTHZ] DENIED branch
DenialMessage(c) == ToolMessage(DeniedText, {}, c.id)

\* the ToolMessage of the rejected branch
RejectionMessage(h, c) ==
  IF h = "recon_s"
    THEN ToolMessage(UploadRejectedText, {}, c.id)
    ELSE ToolMessage(RejectedText, {c.name}, c.id)

NotFoundMessage(h, c) ==
  IF h = "recon_s"
    THEN ToolMessage(ReconNotFoundText, {c.name}, c.id)
    ELSE ToolMessage(NotFoundText, {c.name}, c.id)

\* the ToolMessage built from tool.ainvoke's outcome
ObservationMessage(h, c, out) ==
  CASE out = "ok" -> ToolMessage(ObservationText, {}, c.id)
    [] out = "errstr" -> ToolMessage(ToolErrorText, {}, c.id)
    [] out = "raise" ->
         ToolMessage(IF h = "recon_s" THEN ReconExecErrorText
                                      ELSE ExecErrorText, {}, c.id)

\* ------------------------------------------------------- approval gate
\* approval.resume and approval.resume.get("type") in ("approve", "edit")
IsApproval(v) == v.hasResume /\ v.type \in {"approve", "edit"}

\* approval.resume.get("args") is truthy
HasEditedArgs(v) == v.hasArgs /\ v.args # EmptyArgs

GateFailOpenOnReject(h, v, tool_args) == [go |-> TRUE, args |-> tool_args]

\* What handle_tool_calls does with the value returned by interrupt():
\* go = the tool call proceeds to execution, args = the arguments it uses.
Gate(h, v, tool_args) ==
  IF h = "recon_s"
    THEN IF ~(v.isCommand /\ IsApproval(v))
           THEN [go |-> FALSE, args |-> tool_args]
           ELSE [go |-> TRUE,
                 args |-> IF HasEditedArgs(v) THEN v.args ELSE tool_args]
    ELSE IF v.isCommand
           THEN IF IsApproval(v)
                  THEN [go |-> TRUE,
                        args |-> IF HasEditedArgs(v) THEN v.args
                                                     ELSE tool_args]
                  ELSE [go |-> FALSE, args |-> tool_args]
           ELSE [go |-> TRUE, args |-> tool_args]

InterruptValueLatest(rs, k) == rs[Len(rs)]

\* interrupt(): the value returned to the k-th interrupt() call of a node
\* execution is the k-th resume value delivered to the suspended node
InterruptValue(rs, k) == rs[k]


\* ------------------------------------------------- handle_tool_calls
\* tool.ainvoke(tool_args) for one call, after the lookup in tools_by_name
Invoke(h, tools_by_name, c, tool_args, out, k, wasGated, v) ==
  IF c.name \notin tools_by_name
    THEN [kind |-> "msg", msg |-> NotFoundMessage(h, c), invs |-> << >>,
          k |-> k, gated |-> wasGated, decided |-> v]
    ELSE [kind |-> "msg", msg |-> ObservationMessage(h, c, out),
          invs |-> << [id |-> c.id, name |-> c.name, args |-> tool_args,
                       out |-> out] >>,
          k |-> k, gated |-> wasGated, decided |-> v]

\* One iteration of `for tool_call in tool_calls`.  rs: the resume values
\* delivered to this node so far; k: the number of interrupt() calls made
\* earlier in this execution of the node; out: what tool.ainvoke does.
StepCall(h, roles, tools_by_name, c, rs, out, k) ==
  IF HasAuthz(h) /\ (c.name \notin tools_by_name
                      \/ ~IsToolAuthorized(h, c.name, roles))
    THEN [kind |-> "msg", msg |-> DenialMessage(c), invs |-> << >>,
          k |-> k, gated |-> FALSE, decided |-> << >>]
    ELSE IF IsWriteTable[h][c.name]
      THEN IF k + 1 > Len(rs)
             THEN [kind |-> "interrupt", msg |-> DenialMessage(c),
                   invs |-> << >>, k |-> k + 1, gated |-> TRUE,
                   decided |-> << >>]
             ELSE LET v == InterruptValue(rs, k + 1)
                      g == Gate(h, v, c.args)
                  IN IF g.go
                       THEN Invoke(h, tools_by_name, c, g.args, out, k + 1,
                                   TRUE, << v >>)
                       ELSE [kind |-> "msg", msg |-> RejectionMessage(h, c),
                             invs |-> << >>, k |-> k + 1, gated |-> TRUE,
                             decided |-> << v >>]
      ELSE Invoke(h, tools_by_name, c, c.args, out, k, FALSE, << >>)

\* the payload handed to interrupt(); call_id is not part of the payload,
\* it is recorded here to name the call the request belongs to
ApprovalRequest(c) == [call_id |-> c.id, action |-> c.name, args |-> c.args]

RECURSIVE ProcessCalls(_, _, _, _, _, _, _, _, _)
\* The loop of handle_tool_calls from call i on.  Result: status "return"
\* (the node returned `results`) or "interrupt" (GraphInterrupt left the
\* node); invs: the tool invocations made; caught: GraphInterrupt was
\* swallowed by the outer `except Exception`.
ProcessCalls(h, roles, tools_by_name, calls, rs, outs, i, k, acc) ==
  IF i > Len(calls)
    THEN [status |-> "return", caught |-> FALSE, results |-> acc.results,
          invs |-> acc.invs, gated |-> acc.gated, decided |-> acc.decided,
          request |-> << >>]
    ELSE LET c == calls[i]
             st == StepCall(h, roles, tools_by_name, c, rs, outs[i], k)
         IN IF st.kind = "interrupt"
              THEN IF OuterTry(h)
                     THEN [status |-> "return", caught |-> TRUE,
                           results |->
                             << ToolMessage(BatchErrorText, {c.name},
                                            "error") >>,
                           invs |-> acc.invs,
                           gated |-> acc.gated \cup {c.id},
                           decided |-> acc.decided, request |-> << >>]
                     ELSE [status |-> "interrupt", caught |-> FALSE,
                           results |-> << >>, invs |-> acc.invs,
                           gated |-> acc.gated \cup {c.id},
                           decided |-> acc.decided,
                           request |-> << ApprovalRequest(c) >>]
              ELSE ProcessCalls(h, roles, tools_by_name, calls, rs, outs,
                     i + 1, st.k,
                     [results |-> Append(acc.results, st.msg),
                      invs |-> acc.invs \o st.invs,
                      gated |-> IF st.gated THEN acc.gated \cup {c.id}
                                            ELSE acc.gated,
                      decided |-> acc.decided \cup
                         { [id |-> c.id, v |-> st.decided[j]] :
                             j \in 1..Len(st.decided) }])

\* one execution of the node handle_tool_calls
RunNode(h, roles, calls, rs, outs) ==
  ProcessCalls(h, roles, GetTools(h, roles), calls, rs, outs, 1, 0,
               [results |-> << >>, invs |-> << >>, gated |-> {},
                decided |-> {}])

\* has_error of src/recon_agent: the node ends the graph (Command goto END)
HasError(h, results) ==
  h = "recon_s" /\ \E j \in 1..Len(results) : StartsWithError(results[j].content)

\* The reducer of the `messages` channel of AgentState: add_messages
\* appends the update; src/nav_agent annotates the field with a plain string,
\* which leaves a last-value channel: the update replaces the list.
Reduce(h, old, update) ==
  IF h = "nav" THEN update ELSE old \o update

\* ------------------------------------------------------------------ state
VARIABLES
  handler,          \* the handler graph that runs the turn
  roles,            \* config["configurable"]["user"]["roles"]
  messages,         \* state["messages"] of the handler graph
  pc,               \* next node: call_model, handle_tool_calls, interrupted, END
  issued,           \* number of tool calls the oracle has requested so far
  bound,            \* tool names bound to the model at the last oracle call
  resumes,          \* resume values delivered to the suspended node
  invocations,      \* every tool.ainvoke made, in order
  approvalRequests, \* interrupt payloads surfaced to the approver
  gatedCalls,       \* ids of the calls for which interrupt() was called
  decisions,        \* [id, v]: interrupt() returned v for call id
  delivered,        \* [id, v]: the approver answered v while id was pending
  swallowed,        \* ids whose GraphInterrupt was caught inside the node
  nodeRuns,         \* executions of handle_tool_calls for the current batch
  requested,        \* every operation request the oracle emitted
  returned          \* every ToolMessage handle_tool_calls returned, in order

hvars == << handler, roles, messages, pc, issued, bound, resumes, invocations,
            approvalRequests, gatedCalls, decisions, delivered, swallowed,
            nodeRuns, requested, returned >>

\* ----------------------------------------------------------- router state
VARIABLES
  router,           \* the router graph that runs the turn: backend or src
  user,             \* config["configurable"]["user"]: role and roles
  rmessages,        \* state["messages"] of the router graph
  route_decision,   \* state["route_decision"]
  rpc,              \* next node of the router graph
  oracleCalls,      \* number of classifier oracle calls made
  response,         \* what the classifier oracle did when it was called
  loaded,           \* agent names passed to _load_subagent
  invoked,          \* agent names whose graph was invoked
  checks,           \* [agent, ok]: results of _check_agent_access
  order_result,     \* state["order_result"]
  nav_result,       \* state["nav_result"]
  recon_result,     \* state["recon_result"] (backend only)
  supplied,         \* the user context the request arrived with
  nodesRun          \* the agent nodes that ran in this turn, in order

rvars == << router, user, rmessages, route_decision, rpc, oracleCalls,
            response, loaded, invoked, checks, order_result, nav_result,
            recon_result, supplied, nodesRun >>

\* ----------------------------------------------------------- memory state
VARIABLES
  redis,            \* redis_store: key -> record, namespace ("memory",)
  pgstore,          \* store: <<namespace, key>> -> record
  uuids,            \* number of uuid.uuid4() values generated so far
  turns,            \* the turns of the memory study, by turn number
  finished          \* turn numbers in the order the turns ended

mvars == << redis, pgstore, uuids, turns, finished >>

VARIABLES
  fcall,            \* the function under study and its input
  fpc,              \* input: not applied yet; done: applied
  fout              \* what the function returned, or that it raised

fvars == << fcall, fpc, fout >>

VARIABLES
  sreq,             \* supervisor tool call: sub-agent, caller scope, request
  spc,              \* next step of the call
  spayload,         \* the string handed to the sub-agent's process_request
  sresp,            \* what the supervisor tool returned
  strail,           \* workflow steps run, in order
  sstate            \* CheckUploadState of the order-ingestion graph

svars == << sreq, spc, spayload, sresp, strail, sstate >>

VARIABLES
  acall,            \* call into src/MCPAgent: the function and its inputs
  apc,              \* next step of the call
  aout,             \* analyze_prompt / route: mode, LLM invocations, handler
  wf                \* execute_multi_stage_workflow: results and loop position

avars == << acall, apc, aout, wf >>

xvars == << fvars, svars, avars >>

vars == << hvars, rvars, mvars, xvars >>

\* a function with an empty domain: an empty store
EmptyStore == [k \in {} |-> 0]

\* the user context of a request without X-User-Id (extract_user_context
\* returns None) or without a token
Absent == [present |-> FALSE, user_id |-> << >>, role |-> << >>, roles |-> << >>]

\* the stores are not used (the handler graph is studied alone)
MemoryIdle ==
  /\ redis = EmptyStore
  /\ pgstore = EmptyStore
  /\ uuids = 0
  /\ turns = << >>
  /\ finished = << >>

\* no function is under study
FunctionIdle ==
  /\ fcall = [fn |-> "none"]
  /\ fpc = "idle"
  /\ fout = [kind |-> "none"]

\* no supervisor tool call is under way
NoCheckUploadState ==
  [file_path |-> FALSE, upload_requested |-> FALSE, check_requested |-> FALSE,
   exists_result |-> [shape |-> "none", key |-> "", flag |-> FALSE]]

SupervisorIdle ==
  /\ sreq = [agent |-> "none"]
  /\ spc = "idle"
  /\ spayload = << >>
  /\ sresp = "none"
  /\ strail = << >>
  /\ sstate = NoCheckUploadState

NoMode == [mode |-> "none", llm_calls |-> 0, handler |-> "none"]

NoWorkflow ==
  [stages |-> << >>, errors |-> << >>, combined_data |-> << >>,
   stage_num |-> 1, final_result |-> [summary |-> "none"]]

McpAgentIdle ==
  /\ acall = [fn |-> "none"]
  /\ apc = "idle"
  /\ aout = NoMode
  /\ wf = NoWorkflow

ExtraIdle == FunctionIdle /\ SupervisorIdle /\ McpAgentIdle

\* the oracle was not called
NoResponse == [kind |-> "none", lines |-> << >>]

\* the router graph is not running (the handler graph is studied alone)
RouterIdle ==
  /\ router = "backend"
  /\ user = Absent
  /\ supplied = Absent
  /\ rmessages = << >>
  /\ route_decision = << >>
  /\ rpc = "idle"
  /\ oracleCalls = 0
  /\ response = NoResponse
  /\ loaded = {}
  /\ invoked = {}
  /\ checks = {}
  /\ order_result = ""
  /\ nav_result = ""
  /\ recon_result = ""
  /\ nodesRun = << >>

Init ==
  /\ handler \in HandlerNames
  /\ roles \in RoleLists
  /\ messages = << HumanMessage >>
  /\ pc = "call_model"
  /\ issued = 0
  /\ bound = {}
  /\ resumes = << >>
  /\ invocations = << >>
  /\ approvalRequests = << >>
  /\ gatedCalls = {}
  /\ decisions = {}
  /\ delivered = {}
  /\ swallowed = {}
  /\ nodeRuns = 0
  /\ requested = {}
  /\ returned = << >>
  /\ RouterIdle
  /\ MemoryIdle
  /\ ExtraIdle

\* the tool calls of the current batch: messages[-1].tool_calls while the
\* node handle_tool_calls is due or suspended
LastMessage == messages[Len(messages)]
ToolCalls == LastMessage.tool_calls

\* the batches the oracle may request once k tool calls have been issued
\* (any names: the oracle is a possibly-wrong black box and may name tools
\* that were not bound); ids are fresh
Batches(k) ==
  UNION { { [i \in 1..n |->
              [id |-> CallIds[k + i], name |-> nm[i], args |-> ar[i]]] :
            nm \in [1..n -> ToolNames], ar \in [1..n -> OrigArgs] } :
          n \in 1..(MaxCalls - k) }

\* call_model followed by _should_continue
CallModelFinal ==
  /\ pc = "call_model"
  /\ UNCHANGED << rvars, mvars, xvars >>
  /\ bound' = GetTools(handler, roles)
  /\ messages' = Reduce(handler, messages, << AIMessage("answer", << >>) >>)
  /\ pc' = "END"
  /\ UNCHANGED << handler, roles, issued, resumes, invocations,
                  approvalRequests, gatedCalls, decisions, delivered,
                  swallowed, nodeRuns, requested, returned >>

\* the texts of the except branch of call_model
OracleErrorText == "I encountered an error while processing your request: {e}"
AgentErrorText == "Agent error: {e}"
OracleErrorTexts == {OracleErrorText, AgentErrorText}

OracleFailureRaises(h) == [update |-> << >>, next |-> "raised"]

\* the except branch of call_model: the update it returns, and where
\* _should_continue sends the graph for it
OracleFailure(h) ==
  [update |-> << AIMessage(IF h \in {"recon_b", "recon_s"}
                             THEN AgentErrorText ELSE OracleErrorText,
                           << >>) >>,
   next |-> "END"]

\* call_model when the oracle raises: the except branch answers
CallModelError ==
  /\ pc = "call_model"
  /\ UNCHANGED << rvars, mvars, xvars >>
  /\ bound' = GetTools(handler, roles)
  /\ messages' = Reduce(handler, messages, OracleFailure(handler).update)
  /\ pc' = OracleFailure(handler).next
  /\ UNCHANGED << handler, roles, issued, resumes, invocations,
                  approvalRequests, gatedCalls, decisions, delivered,
                  swallowed, nodeRuns, requested, returned >>

\* call_model when the oracle requests operations
CallModelTools ==
  /\ pc = "call_model"
  /\ UNCHANGED << rvars, mvars, xvars >>
  /\ issued < MaxCalls
  /\ \E calls \in Batches(issued) :
       /\ messages' = Reduce(handler, messages, << AIMessage("", calls) >>)
       /\ requested' = requested \cup ToSet(calls)
  /\ bound' = GetTools(handler, roles)
  /\ issued' = Len(messages'[Len(messages')].tool_calls) + issued
  /\ nodeRuns' = 0
  /\ pc' = "handle_tool_calls"
  /\ UNCHANGED << handler, roles, resumes, invocations, approvalRequests,
                  gatedCalls, decisions, delivered, swallowed, returned >>

\* the effect of one execution r of the node on the graph state
Apply(r, rs) ==
  /\ UNCHANGED << rvars, mvars, xvars >>
  /\ invocations' = invocations \o r.invs
  /\ gatedCalls' = gatedCalls \cup r.gated
  /\ decisions' = decisions \cup r.decided
  /\ nodeRuns' = nodeRuns + 1
  /\ IF r.status = "interrupt"
       THEN /\ pc' = "interrupted"
            /\ approvalRequests' = approvalRequests \o r.request
            /\ resumes' = rs
            /\ UNCHANGED << messages, swallowed, returned >>
       ELSE /\ messages' = Reduce(handler, messages, r.results)
            /\ returned' = returned \o r.results
            /\ resumes' = << >>
            /\ swallowed' = IF r.caught
                              THEN swallowed \cup (r.gated \ gatedCalls)
                              ELSE swallowed
            /\ pc' = IF HasError(handler, r.results)
                       THEN "END"
                       ELSE IF handler = "nav" THEN "finalize_response"
                                               ELSE "call_model"
            /\ UNCHANGED approvalRequests
  /\ UNCHANGED << handler, roles, issued, bound, requested >>

\* first execution of handle_tool_calls on a batch
HandleToolCalls ==
  /\ pc = "handle_tool_calls"
  /\ \E outs \in [1..Len(ToolCalls) -> Outcomes(handler)] :
       Apply(RunNode(handler, roles, ToolCalls, << >>, outs), << >>)
  /\ UNCHANGED delivered

\* the approver answers: graph.invoke(Command(resume=v)) executes the
\* suspended node again from its first line
Resume ==
  /\ pc = "interrupted"
  /\ \E v \in ResumeValues, outs \in [1..Len(ToolCalls) -> Outcomes(handler)] :
       LET rs == Append(resumes, v)
       IN /\ Apply(RunNode(handler, roles, ToolCalls, rs, outs), rs)
          /\ delivered' = delivered \cup
               { [id |-> approvalRequests[Len(approvalRequests)].call_id,
                  v |-> v] }

\* finalize_response of src/nav_agent: joins the ToolMessage contents into
\* one AIMessage; the graph then ends
FinalizeResponse ==
  /\ pc = "finalize_response"
  /\ UNCHANGED << rvars, mvars, xvars >>
  /\ LET tool_results == SelectSeq(messages, LAMBDA m : m.type = "tool")
     IN messages' = Reduce(handler, messages,
          IF tool_results # << >>
            THEN << [type |-> "ai", content |-> "{tool results joined}",
                     names |-> UNION { tool_results[j].names :
                                         j \in 1..Len(tool_results) },
                     tool_call_id |-> "", tool_calls |-> << >>] >>
            ELSE << >>)
  /\ pc' = "END"
  /\ UNCHANGED << handler, roles, issued, bound, resumes, invocations,
                  approvalRequests, gatedCalls, decisions, delivered,
                  swallowed, nodeRuns, requested, returned >>

\* graph.compile(name=...) of create_agent_graph: no checkpointer is passed
\* (initialize_checkpointer is never called), so the state of a suspended
\* node lives in the serving process only
Checkpointer(h) == "none"
DurableCheckpointers == {"postgres"}

\* the serving process restarts while a turn waits at the approval gate
ProcessRestart ==
  /\ pc = "interrupted"
  /\ UNCHANGED << rvars, mvars, xvars >>
  /\ pc' = IF Checkpointer(handler) \in DurableCheckpointers
             THEN "interrupted" ELSE "lost"
  /\ resumes' = IF Checkpointer(handler) \in DurableCheckpointers
                  THEN resumes ELSE << >>
  /\ UNCHANGED << handler, roles, messages, issued, bound, invocations,
                  approvalRequests, gatedCalls, decisions, delivered,
                  swallowed, nodeRuns, requested, returned >>

Next ==
  \/ FinalizeResponse
  \/ ProcessRestart
  \/ CallModelFinal
  \/ CallModelError
  \/ CallModelTools
  \/ HandleToolCalls
  \/ Resume

Spec == Init /\ [][Next]_vars

\* ================================================================ router
\* backend/src/router_agent/graph.py and src/router_agent/graph.py.
\* Strings that the code strips, lower-cases or compares are sequences of
\* characters.
RouterNames == {"backend", "src"}

S_order == <<"o","r","d","e","r">>
S_nav == <<"n","a","v">>
S_recon == <<"r","e","c","o","n">>
S_general == <<"g","e","n","e","r","a","l">>
S_multiple == <<"m","u","l","t","i","p","l","e">>
S_mcp == <<"m","c","p">>
S_ROLE_ADMIN == <<"R","O","L","E","_","A","D","M","I","N">>
S_ROLE_DISTRIBUTOR == <<"R","O","L","E","_","D","I","S","T","R","I","B","U","T","O","R">>
S_ROLE_FUND == <<"R","O","L","E","_","F","U","N","D">>
S_admin == <<"a","d","m","i","n">>
S_distributor == <<"d","i","s","t","r","i","b","u","t","o","r">>
S_fundhouse == <<"f","u","n","d","h","o","u","s","e">>

\* the handler names ROUTER_SYSTEM_PROMPT enumerates
EnumeratedRoutes(r) ==
  IF r = "backend" THEN {S_order, S_nav, S_recon, S_general}
                   ELSE {S_order, S_nav, S_general}

\* the handlers that are not the general one
PrivilegedNodes == {"order_agent", "nav_agent", "recon_agent"}

RECURSIVE LStrip(_)
LStrip(s) == IF s # << >> /\ Head(s) = " " THEN LStrip(Tail(s)) ELSE s

RECURSIVE RStrip(_)
RStrip(s) ==
  IF s # << >> /\ s[Len(s)] = " " THEN RStrip(SubSeq(s, 1, Len(s) - 1)) ELSE s

\* str.strip()
Strip(s) == RStrip(LStrip(s))

\* ---- the classifier oracle's response: a list of lines, each a list of
\* segments; the segment "ROUTE:" stands for an occurrence of that marker
RouteMarker == "ROUTE:"
ReasonLine == << <<"R","E","A","S","O","N",":"," ","x">> >>
RouteLine(d) == << RouteMarker, d >>

\* what the oracle writes after the marker
RawDecisions ==
  { <<" ","o","r","d","e","r">>, <<" ","N","a","v"," ">>, <<" ","r","e","c","o","n">>,
    <<" ","g","e","n","e","r","a","l">>, <<" ","m","u","l","t","i","p","l","e">>,
    <<" ","b","a","n","a","n","a">>, << >> }

ResponseTexts ==
  { << RouteLine(d), ReasonLine >> : d \in RawDecisions }
    \cup { << ReasonLine, RouteLine(<<" ","n","a","v">>) >>,
           << << S_order >> >> }

OracleResponses ==
  { [kind |-> "raise", lines |-> << >>] }
    \cup { [kind |-> "text", lines |-> ls] : ls \in ResponseTexts }

\* "ROUTE:" in line
HasRoute(line) == \E i \in 1..Len(line) : line[i] = RouteMarker

\* line.split("ROUTE:")[1]: what stands between the first marker and the
\* next one (the lines studied have at most one segment there)
SplitRoute1(line) ==
  LET i == CHOOSE k \in 1..Len(line) :
              /\ line[k] = RouteMarker
              /\ \A m \in 1..(k - 1) : line[m] # RouteMarker
  IN IF i < Len(line) /\ line[i + 1] # RouteMarker THEN line[i + 1] ELSE << >>

\* the parse of classify_query: the first line holding the marker decides
ParseRoute(lines) ==
  IF \E j \in 1..Len(lines) : HasRoute(lines[j])
    THEN LET j == CHOOSE k \in 1..Len(lines) :
                    /\ HasRoute(lines[k])
                    /\ \A m \in 1..(k - 1) : ~ HasRoute(lines[m])
         IN Lower(Strip(SplitRoute1(lines[j])))
    ELSE S_general

ClassifyQueryResultNoCatch(hasHuman, resp) ==
  IF ~ hasHuman THEN S_general
  ELSE IF resp.kind = "raise" THEN << >>
  ELSE ParseRoute(resp.lines)

\* the route_decision classify_query returns
ClassifyQueryResult(hasHuman, resp) ==
  IF ~ hasHuman THEN S_general
  ELSE IF resp.kind = "raise" THEN S_general
  ELSE ParseRoute(resp.lines)

\* _should_continue of the router graph (in src the target name
\* multiple_agents is mapped to the node order_agent)
ShouldContinue(r, d) ==
  LET x == Strip(Lower(d))
  IN CASE x = S_order -> "order_agent"
       [] x = S_nav -> "nav_agent"
       [] r = "backend" /\ x = S_recon -> "recon_agent"
       [] r = "src" /\ x = S_multiple -> "order_agent"
       [] OTHER -> "mcp_agent"

\* ---- coarse-grained access check
UserContexts ==
  { [present |-> TRUE, user_id |-> <<"a">>, role |-> ro, roles |-> rl] :
      ro \in { << >>, S_ROLE_DISTRIBUTOR },
      rl \in { << >>, << S_ROLE_ADMIN >>, << S_ROLE_FUND >>, << S_admin >>,
               << <<"F","u","n","d","h","o","u","s","e">> >>,
               << S_ROLE_DISTRIBUTOR, S_ROLE_FUND >> } }

\* all_roles of _check_agent_access (src lower-cases every role)
AllRoles(r, u) ==
  LET norm(x) == IF r = "src" THEN Lower(x) ELSE x
  IN ({ norm(u.role) } \cup { norm(u.roles[i]) : i \in 1..Len(u.roles) })
       \ { << >> }

\* the DEV fallback of chat() and upload_file() in src/app_server.py
DevFallback ==
  [present |-> TRUE, user_id |-> <<"t","e","s","t","_","u","s","e","r">>,
   role |-> << >>, roles |-> << S_admin >>]

\* config["configurable"]["user"] as the entry point of a router builds it
\* from the context the request arrived with
EntryUserContext(r, s) ==
  IF r = "src" /\ ~ s.present THEN DevFallback ELSE s

AccessDeniedText == "Access denied."
UnknownAgentText == "Unknown agent."

\* _check_agent_access granting every agent name it does not know
CheckAgentAccessUnknownGranted(r, u, agent_name) ==
  LET all_roles == AllRoles(r, u)
      admin == IF r = "backend" THEN S_ROLE_ADMIN ELSE S_admin
      distributor == IF r = "backend" THEN S_ROLE_DISTRIBUTOR ELSE S_distributor
      fund == IF r = "backend" THEN S_ROLE_FUND ELSE S_fundhouse
      required ==
        CASE agent_name = "order" -> {admin, distributor}
          [] agent_name = "nav" -> {admin, fund}
          [] agent_name = "recon" /\ r = "backend" -> {admin, distributor, fund}
          [] agent_name = "mcp" -> {admin, distributor, fund}
          [] OTHER -> {}
      known == agent_name \in {"order", "nav", "mcp"}
                 \/ (agent_name = "recon" /\ r = "backend")
  IN IF ~ known THEN [ok |-> TRUE, msg |-> "Authorized"]
     ELSE IF required \cap all_roles # {}
       THEN [ok |-> TRUE, msg |-> "Authorized"]
       ELSE [ok |-> FALSE, msg |-> AccessDeniedText]

\* _check_agent_access: (authorized, message)
CheckAgentAccess(r, u, agent_name) ==
  LET all_roles == AllRoles(r, u)
      admin == IF r = "backend" THEN S_ROLE_ADMIN ELSE S_admin
      distributor == IF r = "backend" THEN S_ROLE_DISTRIBUTOR ELSE S_distributor
      fund == IF r = "backend" THEN S_ROLE_FUND ELSE S_fundhouse
      required ==
        CASE agent_name = "order" -> {admin, distributor}
          [] agent_name = "nav" -> {admin, fund}
          [] agent_name = "recon" /\ r = "backend" -> {admin, distributor, fund}
          [] agent_name = "mcp" -> {admin, distributor, fund}
          [] OTHER -> {}
      known == agent_name \in {"order", "nav", "mcp"}
                 \/ (agent_name = "recon" /\ r = "backend")
  IN IF ~ known THEN [ok |-> FALSE, msg |-> UnknownAgentText]
     ELSE IF required \cap all_roles # {}
       THEN [ok |-> TRUE, msg |-> "Authorized"]
       ELSE [ok |-> FALSE, msg |-> AccessDeniedText]

AgentNodeBranchNoCheck(chk) == "invoke"

\* the branch an invoke_*_agent node takes on the result of the check
AgentNodeBranch(chk) == IF ~ chk.ok THEN "denied" ELSE "invoke"

\* ---- memory store: save_short_term_memory, retrieve_short_term_memory
\* and _save_agent_interaction of backend/src/router_agent/graph.py
S_memory == <<"m","e","m","o","r","y">>

\* a key that leaves the user out
MemoryKeyPerThread(user_id, thread_id) == S_memory \o <<":">> \o thread_id

\* key = f"memory:{user_id}:{thread_id}"
MemoryKey(user_id, thread_id) ==
  S_memory \o <<":">> \o user_id \o <<":">> \o thread_id

\* namespace = ("user", user_id, "interactions")
InteractionNamespace(user_id) == << "user", user_id, "interactions" >>

\* store.put(namespace, key, value) of a BaseStore: insert or overwrite
Put(store, k, v) ==
  [x \in (DOMAIN store) \cup {k} |-> IF x = k THEN v ELSE store[x]]

\* the values a node hands to the memory functions: a dict, as the list of
\* its items in insertion order, or a string, as a list of tokens
DictOf(items) == [kind |-> "dict", items |-> items, text |-> << >>]
StrOf(text) == [kind |-> "str", items |-> << >>, text |-> text]
EmptyDict == DictOf(<< >>)

\* `not content`
Falsy(v) == IF v.kind = "dict" THEN v.items = << >> ELSE v.text = << >>

\* str(d) of a dict: "{'k': 'v', ...}"
RECURSIVE ReprItems(_)
ReprItems(items) ==
  IF items = << >> THEN << >>
  ELSE << "'", Head(items)[1], "': '" >> \o Head(items)[2] \o << "'" >>
         \o (IF Len(items) > 1 THEN << ", " >> ELSE << >>)
         \o ReprItems(Tail(items))

PyStr(v) == IF v.kind = "dict" THEN StrOf(<< "{" >> \o ReprItems(v.items) \o << "}" >>)
                               ELSE v

\* the number of tokens of a value
RECURSIVE ItemsSize(_)
ItemsSize(items) ==
  IF items = << >> THEN 0 ELSE Len(Head(items)[2]) + ItemsSize(Tail(items))

ValueSize(v) == IF v.kind = "dict" THEN ItemsSize(v.items) ELSE Len(v.text)

\* str(uuid.uuid4()): the n-th value generated; no two are equal
Uuid(n) == << "uuid", n >>

\* `not user_context or not user_context.get("user_id")`
NoUserId(u) == ~ u.present \/ u.user_id = << >>

\* what a raising store call does to the memory function that made it
StoreFailureRaises(op) == "raised"

\* the three memory functions catch Exception and log it
StoreFailure(op) == "logged"

\* save_short_term_memory: the store after the call and the uuids drawn;
\* ok is whether store.put succeeded
SaveShortTermMemory(store, u, thread_id, content, ok, n) ==
  IF thread_id = << >> \/ Falsy(content) THEN [store |-> store, uuids |-> n]
  ELSE IF NoUserId(u) THEN [store |-> store, uuids |-> n]
  ELSE IF ~ ok THEN [store |-> store, uuids |-> n + 1]
  ELSE [store |-> Put(store, MemoryKey(u.user_id, thread_id),
                      [content |-> content,
                       timestamp |-> Uuid(n + 1),
                       user_id |-> u.user_id,
                       thread_id |-> thread_id]),
        uuids |-> n + 1]

\* retrieve_short_term_memory: the list of memories; ok is whether
\* store.get succeeded
RetrieveShortTermMemory(store, u, thread_id, ok) ==
  IF thread_id = << >> THEN << >>
  ELSE IF NoUserId(u) THEN << >>
  ELSE IF ~ ok THEN << >>
  ELSE LET key == MemoryKey(u.user_id, thread_id)
       IN IF key \in DOMAIN store /\ ~ Falsy(store[key].content)
            THEN << PyStr(store[key].content) >>
            ELSE << >>

\* _save_agent_interaction with one key for every write
SaveAgentInteractionFixedKey(store, u, agent_name, result, ok, n) ==
  IF NoUserId(u) THEN [store |-> store, uuids |-> n]
  ELSE IF ~ ok THEN [store |-> store, uuids |-> n + 1]
  ELSE [store |-> Put(store, << InteractionNamespace(u.user_id), Uuid(1) >>,
                      [agent |-> agent_name, result |-> result]),
        uuids |-> n + 1]

\* _save_agent_interaction: the store after the call and the uuids drawn
SaveAgentInteraction(store, u, agent_name, result, ok, n) ==
  IF NoUserId(u) THEN [store |-> store, uuids |-> n]
  ELSE IF ~ ok THEN [store |-> store, uuids |-> n + 1]
  ELSE [store |-> Put(store, << InteractionNamespace(u.user_id), Uuid(n + 1) >>,
                      [agent |-> agent_name, result |-> result]),
        uuids |-> n + 1]

\* final_message of an invoke_*_agent node whose sub-agent answered
FinalMessage(answer) == DictOf(<< << "AIMessage", answer >> >>)

\* the agent name an invoke_*_agent node logs its interaction under
AgentLogName(agent) == IF agent = "mcp" THEN "general" ELSE agent

\* the store call of a memory function was made and raised, and the
\* exception left the memory function
GetRaised(u, thread_id, ok) ==
  /\ thread_id # << >> /\ ~ NoUserId(u) /\ ~ ok
  /\ StoreFailure("get") = "raised"

PutRaised(u, thread_id, content, ok) ==
  /\ thread_id # << >> /\ ~ Falsy(content) /\ ~ NoUserId(u) /\ ~ ok
  /\ StoreFailure("put") = "raised"

LogRaised(u, ok) ==
  /\ ~ NoUserId(u) /\ ~ ok
  /\ StoreFailure("log") = "raised"

\* the thread_id of the turn the router graph runs
RouterThread == <<"1">>

\* the answer of the sub-agent in the turn the router graph runs
RouterAnswer == << "{answer}" >>

\* ---- router graph
AgentNodes == {"order_agent", "nav_agent", "recon_agent", "mcp_agent"}

AgentOf(node) ==
  CASE node = "order_agent" -> "order"
    [] node = "nav_agent" -> "nav"
    [] node = "recon_agent" -> "recon"
    [] node = "mcp_agent" -> "mcp"

\* every domain node falls through to the general node
AfterAgentFallThrough(r, agent) ==
  IF agent = "mcp" THEN "END" ELSE "mcp_agent"

\* the edge that leaves an agent node
AfterAgent(r, agent) ==
  IF r = "src" /\ agent \in {"order", "nav"} THEN "synthesize" ELSE "END"

RMsg(type, content) == [type |-> type, content |-> content]

\* the reducer of RouterState.messages: operator.add in backend, none in src
RReduce(r, old, update) == IF r = "backend" THEN old \o update ELSE update

\* the texts a user may send, as word lists
UserTexts ==
  { << "upload", "order", "file" >>, << "upload", "nav", "file" >>,
    << "hello" >> }

HasHuman(msgs) == \E i \in 1..Len(msgs) : msgs[i].type = "human"

\* the AIMessage of the access-denied branch
DeniedUpdate(r, agent, msg) ==
  IF r = "src" /\ agent = "mcp" THEN << RMsg("ai", << " ", msg >>) >>
                                ELSE << RMsg("ai", << msg >>) >>

\* what loading and invoking the sub-agent may do
SubagentOutcomes(r, msgs) ==
  IF r = "backend" /\ ~ HasHuman(msgs)
    THEN {"load_error", "state_error"}
    ELSE {"load_error", "invoke_error", "ok"}

McpErrorText == "Hello! I'm here to help. Error: {e}"

\* the update an invoke_*_agent node returns after the check has passed
InvokeUpdate(r, agent, out, msgs, memories) ==
  IF out # "ok"
    THEN [messages |->
            IF r = "src" /\ agent = "mcp"
              THEN << RMsg("ai", << McpErrorText >>) >>
              ELSE << RMsg("ai", << agent, " agent error: {e}" >>) >>,
          result |-> IF r = "src" THEN "Error: {e}" ELSE "{e}"]
    ELSE IF r = "backend"
      THEN [messages |->
              IF agent = "mcp" THEN << >>
              ELSE (IF memories # << >>
                      THEN << RMsg("system", << "Recent conversation context:",
                                                memories >>) >>
                      ELSE << >>)
                   \o << msgs[Len(msgs)], RMsg("ai", RouterAnswer) >>,
            result |-> "{answer}"]
      ELSE [messages |->
              IF agent = "mcp"
                THEN << RMsg("ai", RouterAnswer) >>
                ELSE << RMsg("ai", << agent, " agent: ", "{answer}" >>) >>,
            result |-> "{answer}"]

\* the result field of RouterState an invoke_*_agent node writes; the key
\* mcp_result is no channel of the state and is dropped
ResultField(r, agent) ==
  CASE agent = "order" -> "order_result"
    [] agent = "nav" -> "nav_result"
    [] agent = "recon" /\ r = "backend" -> "recon_result"
    [] OTHER -> "none"

RInit ==
  /\ router \in RouterNames
  /\ supplied \in UserContexts \cup { Absent }
  /\ user = Absent
  /\ rmessages \in { << RMsg("human", t) >> : t \in UserTexts } \cup { << >> }
  /\ route_decision = << >>
  /\ rpc = "request"
  /\ oracleCalls = 0
  /\ response = NoResponse
  /\ loaded = {}
  /\ invoked = {}
  /\ checks = {}
  /\ order_result = ""
  /\ nav_result = ""
  /\ recon_result = ""
  /\ nodesRun = << >>
  /\ redis \in IF router = "backend"
                  THEN { EmptyStore,
                         SaveShortTermMemory(EmptyStore, supplied, RouterThread,
                                             FinalMessage(<< "{earlier answer}" >>),
                                             TRUE, 0).store }
                  ELSE { EmptyStore }
  /\ pgstore = EmptyStore
  /\ uuids = 1
  /\ turns = << >>
  /\ finished = << >>
  /\ handler = "agent"
  /\ roles = << >>
  /\ messages = << HumanMessage >>
  /\ pc = "idle"
  /\ issued = 0
  /\ bound = {}
  /\ resumes = << >>
  /\ invocations = << >>
  /\ approvalRequests = << >>
  /\ gatedCalls = {}
  /\ decisions = {}
  /\ delivered = {}
  /\ swallowed = {}
  /\ nodeRuns = 0
  /\ requested = {}
  /\ returned = << >>
  /\ ExtraIdle

\* chat() of the app server: the user context is extracted from the
\* request and put into the config the router graph is started with
ReceiveRequest ==
  /\ rpc = "request"
  /\ user' = EntryUserContext(router, supplied)
  /\ rpc' = "classify_query"
  /\ UNCHANGED << router, rmessages, route_decision, oracleCalls, response,
                  loaded, invoked, checks, order_result, nav_result,
                  recon_result, supplied, nodesRun >>
  /\ UNCHANGED << hvars, mvars, xvars >>

\* classify_query followed by _should_continue
ClassifyQuery ==
  /\ rpc = "classify_query"
  /\ \E resp \in IF HasHuman(rmessages) THEN OracleResponses
                                       ELSE { NoResponse } :
       /\ response' = resp
       /\ route_decision' =
            IF router = "backend" /\ ~ user.present /\ HasHuman(rmessages)
              THEN S_general   \* user_context.get on None, caught
              ELSE ClassifyQueryResult(HasHuman(rmessages), resp)
  /\ oracleCalls' = IF HasHuman(rmessages) THEN oracleCalls + 1
                                           ELSE oracleCalls
  /\ rpc' = ShouldContinue(router, route_decision')
  /\ UNCHANGED << router, user, rmessages, loaded, invoked, checks,
                  order_result, nav_result, recon_result, supplied,
                  nodesRun >>
  /\ UNCHANGED << hvars, mvars, xvars >>

\* an invoke_*_agent node whose access check fails
AccessDenied ==
  /\ rpc \in AgentNodes
  /\ user.present
  /\ LET agent == AgentOf(rpc)
         chk == CheckAgentAccess(router, user, agent)
     IN /\ AgentNodeBranch(chk) = "denied"
        /\ checks' = checks \cup { [agent |-> agent, ok |-> chk.ok] }
        /\ rmessages' = RReduce(router, rmessages,
                                DeniedUpdate(router, agent, chk.msg))
        /\ order_result' = IF agent = "order" THEN chk.msg ELSE order_result
        /\ nav_result' = IF agent = "nav" THEN chk.msg ELSE nav_result
        /\ recon_result' = IF ResultField(router, agent) = "recon_result"
                              THEN chk.msg ELSE recon_result
        /\ rpc' = AfterAgent(router, agent)
  /\ nodesRun' = Append(nodesRun, rpc)
  /\ UNCHANGED << router, user, route_decision, oracleCalls, response,
                  loaded, invoked, supplied >>
  /\ UNCHANGED << hvars, mvars, xvars >>

\* an invoke_*_agent node of backend whose user context is None: the
\* access check raises AttributeError and the node's except branch answers
CheckAccessRaises ==
  /\ rpc \in AgentNodes
  /\ ~ user.present
  /\ LET agent == AgentOf(rpc)
         upd == InvokeUpdate(router, agent, "check_error", rmessages, << >>)
     IN /\ rmessages' = RReduce(router, rmessages, upd.messages)
        /\ order_result' = IF agent = "order" THEN upd.result ELSE order_result
        /\ nav_result' = IF agent = "nav" THEN upd.result ELSE nav_result
        /\ recon_result' = IF agent = "recon" THEN upd.result ELSE recon_result
        /\ rpc' = AfterAgent(router, agent)
  /\ nodesRun' = Append(nodesRun, rpc)
  /\ UNCHANGED << router, user, route_decision, oracleCalls, response,
                  loaded, invoked, checks, supplied >>
  /\ UNCHANGED << hvars, mvars, xvars >>

\* an invoke_*_agent node whose access check passes: _load_subagent, then
\* graph.ainvoke
InvokeSubagent ==
  /\ rpc \in AgentNodes
  /\ user.present
  /\ LET agent == AgentOf(rpc)
         chk == CheckAgentAccess(router, user, agent)
     IN /\ AgentNodeBranch(chk) = "invoke"
        /\ checks' = checks \cup { [agent |-> agent, ok |-> chk.ok] }
        /\ loaded' = loaded \cup { agent }
        /\ \E out \in SubagentOutcomes(router, rmessages),
              getOk \in BOOLEAN, putOk \in BOOLEAN, logOk \in BOOLEAN :
             LET mem == router = "backend"
                 memories == IF mem /\ out \in {"ok", "invoke_error"}
                               THEN RetrieveShortTermMemory(redis, user,
                                                            RouterThread, getOk)
                               ELSE << >>
                 final == FinalMessage(RouterAnswer)
                 sv == IF mem /\ out = "ok"
                         THEN SaveShortTermMemory(redis, user, RouterThread,
                                                  final, putOk, uuids)
                         ELSE [store |-> redis, uuids |-> uuids]
                 lg == IF mem /\ out = "ok"
                         THEN SaveAgentInteraction(pgstore, user,
                                                   AgentLogName(agent), final,
                                                   logOk, sv.uuids)
                         ELSE [store |-> pgstore, uuids |-> uuids]
                 getRaised == mem /\ out \in {"ok", "invoke_error"}
                                /\ GetRaised(user, RouterThread, getOk)
                 putRaised == mem /\ out = "ok" /\ ~ getRaised
                                /\ PutRaised(user, RouterThread, final, putOk)
                 logRaised == mem /\ out = "ok" /\ ~ getRaised /\ ~ putRaised
                                /\ LogRaised(user, logOk)
                 eff == IF getRaised \/ putRaised \/ logRaised
                          THEN "store_error" ELSE out
                 upd == InvokeUpdate(router, agent, eff, rmessages, memories)
             IN /\ (~ mem \/ out \notin {"ok", "invoke_error"})
                      => (getOk /\ putOk /\ logOk)
                /\ (mem /\ out = "invoke_error") => (putOk /\ logOk)
                /\ invoked' = IF out \in {"ok", "invoke_error"} /\ ~ getRaised
                                THEN invoked \cup { agent } ELSE invoked
                /\ rmessages' = RReduce(router, rmessages, upd.messages)
                /\ order_result' = IF agent = "order" THEN upd.result
                                                      ELSE order_result
                /\ nav_result' = IF agent = "nav" THEN upd.result
                                                  ELSE nav_result
                /\ recon_result' =
                     IF ResultField(router, agent) = "recon_result"
                       THEN upd.result ELSE recon_result
                /\ redis' = IF getRaised THEN redis ELSE sv.store
                /\ pgstore' = IF getRaised \/ putRaised THEN pgstore
                                                         ELSE lg.store
                /\ uuids' = IF getRaised THEN uuids
                            ELSE IF putRaised THEN sv.uuids ELSE lg.uuids
        /\ rpc' = AfterAgent(router, agent)
  /\ nodesRun' = Append(nodesRun, rpc)
  /\ UNCHANGED << router, user, route_decision, oracleCalls, response,
                  supplied, turns, finished >>
  /\ UNCHANGED << hvars, xvars >>

\* synthesize_results of src: joins the agent results; the synthesizer
\* oracle is asked only when the state still holds a HumanMessage
SynthesizeResults ==
  /\ rpc = "synthesize"
  /\ LET results ==
           (IF order_result # "" THEN << << "Order Agent: ", order_result >> >>
                                 ELSE << >>)
           \o (IF nav_result # "" THEN << << "NAV Agent: ", nav_result >> >>
                                  ELSE << >>)
     IN IF ~ HasHuman(rmessages) /\ results # << >>
          THEN rmessages' = RReduce(router, rmessages,
                                    << RMsg("ai", results) >>)
          ELSE \E c \in { "{synthesis}", "Error synthesizing results: {e}" } :
                  rmessages' = RReduce(router, rmessages,
                                       << RMsg("ai", << c >>) >>)
  /\ rpc' = "END"
  /\ UNCHANGED << router, user, route_decision, oracleCalls, response,
                  loaded, invoked, checks, order_result, nav_result,
                  recon_result, supplied, nodesRun >>
  /\ UNCHANGED << hvars, mvars, xvars >>

RNext ==
  \/ ReceiveRequest
  \/ ClassifyQuery
  \/ AccessDenied
  \/ CheckAccessRaises
  \/ InvokeSubagent
  \/ SynthesizeResults

RouterSpec == RInit /\ [][RNext]_vars

\* ================================================================ memory
\* Several turns of the backend router run concurrently against the two
\* stores. A turn is the invoke_*_agent node the classifier chose; its
\* steps are the node's store calls.
MaxTurns == 2

\* user ids are the X-User-Id header of the request: any string
UserA ==
  [present |-> TRUE, user_id |-> <<"a">>, role |-> << >>,
   roles |-> << S_ROLE_ADMIN >>]
UserB ==
  [present |-> TRUE, user_id |-> <<"a",":","2">>, role |-> << >>,
   roles |-> << S_ROLE_FUND >>]

\* who asks, and the agent node the classifier picks for the request
MemRequests ==
  { [user |-> UserA, agent |-> "order"], [user |-> UserB, agent |-> "order"],
    [user |-> UserB, agent |-> "mcp"] }

\* thread_id of ChatRequest: any string the client sends
ThreadIds == { <<"1">>, <<"2",":","1">> }

\* the sub-agent's final answer in turn k: k tokens, so that the answers
\* of the turns differ in content and in size
AnswerTokens == << "a1", "a2", "a3", "a4" >>
AnswerText(k) == [i \in 1..k |-> AnswerTokens[k]]

NoAnswer == [kind |-> "none", body |-> EmptyDict]

\* the AIMessage of the node's except branch
NodeError == [kind |-> "error", body |-> StrOf(<< "agent error: {e}" >>)]

NewTurn(u, t, a, done) ==
  [user |-> u, thread_id |-> t, agent |-> a, pc |-> "agent_node",
   memories |-> << >>, final |-> EmptyDict, response |-> NoAnswer,
   before |-> done, storeFailed |-> FALSE, saved |-> 0, logged |-> FALSE]

MInit ==
  /\ handler = "agent"
  /\ roles = << >>
  /\ messages = << HumanMessage >>
  /\ pc = "idle"
  /\ issued = 0
  /\ bound = {}
  /\ resumes = << >>
  /\ invocations = << >>
  /\ approvalRequests = << >>
  /\ gatedCalls = {}
  /\ decisions = {}
  /\ delivered = {}
  /\ swallowed = {}
  /\ nodeRuns = 0
  /\ requested = {}
  /\ returned = << >>
  /\ RouterIdle
  /\ MemoryIdle
  /\ ExtraIdle

\* a request arrives, the classifier picks its agent node, and the node
\* runs up to graph.ainvoke: access check, then the short-term read
TurnBegin ==
  /\ Len(turns) < MaxTurns
  /\ \E rq \in MemRequests, t \in ThreadIds :
       LET k == Len(turns) + 1
           u == rq.user
           a == rq.agent
           tn == NewTurn(u, t, a, ToSet(finished))
           chk == CheckAgentAccess("backend", u, a)
       IN \/ /\ AgentNodeBranch(chk) = "denied"
             /\ turns' = Append(turns,
                  [tn EXCEPT !.pc = "done",
                             !.response = [kind |-> "denied",
                                           body |-> StrOf(<< chk.msg >>)]])
             /\ finished' = Append(finished, k)
          \/ /\ AgentNodeBranch(chk) = "invoke"
             /\ \E ok \in BOOLEAN :
                  IF GetRaised(u, t, ok)
                    THEN /\ turns' = Append(turns,
                              [tn EXCEPT !.pc = "done",
                                         !.storeFailed = TRUE,
                                         !.response = NodeError])
                         /\ finished' = Append(finished, k)
                    ELSE /\ turns' = Append(turns,
                              [tn EXCEPT
                                 !.pc = "ainvoke",
                                 !.storeFailed = ~ ok,
                                 !.memories =
                                    RetrieveShortTermMemory(redis, u, t, ok)])
                         /\ UNCHANGED finished
  /\ UNCHANGED << redis, pgstore, uuids >>
  /\ UNCHANGED << hvars, rvars, xvars >>

\* graph.ainvoke raises: the node's except branch answers
TurnSubagentRaises ==
  \E k \in DOMAIN turns :
    /\ turns[k].pc = "ainvoke"
    /\ turns' = [turns EXCEPT ![k].pc = "done", ![k].response = NodeError]
    /\ finished' = Append(finished, k)
    /\ UNCHANGED << redis, pgstore, uuids >>
    /\ UNCHANGED << hvars, rvars, xvars >>

\* graph.ainvoke returns: the node saves the short-term record, writes the
\* interaction log and returns (no await lies between these calls)
TurnEnd ==
  \E k \in DOMAIN turns :
    LET tn == turns[k]
        final == FinalMessage(AnswerText(k))
    IN /\ tn.pc = "ainvoke"
       /\ \E putOk \in BOOLEAN, logOk \in BOOLEAN :
            LET sv == SaveShortTermMemory(redis, tn.user, tn.thread_id,
                                          final, putOk, uuids)
                lg == SaveAgentInteraction(pgstore, tn.user,
                                           AgentLogName(tn.agent), final,
                                           logOk, sv.uuids)
                putRaised == PutRaised(tn.user, tn.thread_id, final, putOk)
                logRaised == ~ putRaised /\ LogRaised(tn.user, logOk)
            IN /\ putRaised => logOk
               /\ turns' = [turns EXCEPT
                    ![k].pc = "done",
                    ![k].final = final,
                    ![k].storeFailed = tn.storeFailed \/ ~ putOk \/ ~ logOk,
                    ![k].saved = IF putOk THEN sv.uuids ELSE 0,
                    ![k].logged = ~ putRaised /\ logOk,
                    ![k].response =
                       IF putRaised \/ logRaised
                         THEN NodeError
                         ELSE [kind |-> "answer", body |-> final]]
               /\ redis' = sv.store
               /\ pgstore' = IF putRaised THEN pgstore ELSE lg.store
               /\ uuids' = IF putRaised THEN sv.uuids ELSE lg.uuids
       /\ finished' = Append(finished, k)
       /\ UNCHANGED << hvars, rvars, xvars >>

MNext ==
  \/ TurnBegin
  \/ TurnSubagentRaises
  \/ TurnEnd

MemorySpec == MInit /\ [][MNext]_vars


\* ------------------------------------------------------ derived notions
\* every operation request the oracle has emitted in this turn
RequestedCalls == requested

\* the requests of the batch handle_tool_calls has not yet returned from
PendingCalls ==
  IF pc \in {"handle_tool_calls", "interrupted", "lost"} THEN ToSet(ToolCalls) ELSE {}

\* the requests of the batches handle_tool_calls has returned from
ResolvedCalls == RequestedCalls \ PendingCalls

InvocationsOf(id) == { j \in 1..Len(invocations) : invocations[j].id = id }

ToolResultsOf(id) ==
  { j \in 1..Len(returned) : returned[j].tool_call_id = id }

IsRejectionText(content) == content \in {RejectedText, UploadRejectedText}

\* the approver's answer is an approval in the handlers' encoding
IsApproveResponse(v) == v.isCommand /\ IsApproval(v)

\* the authorization check of a request is false: the table check where
\* the handler has a table, and the empty role set (for which the check is
\* false under every table) elsewhere
CheckIsFalse(c) ==
  IF HasAuthz(handler) THEN ~IsToolAuthorized(handler, c.name, roles)
                       ELSE ToSet(roles) = {}

\* ------------------------------------------------------------------ C1
\* C1: no mutating operation is executed without approval: every tool
\* invocation of an operation that changes external state belongs to a call
\* the gate suspended on and for which an approve or edit answer came back.
C1_NoMutatingWithoutApproval ==
  \A j \in 1..Len(invocations) :
     invocations[j].name \in DocumentedMutating =>
       /\ invocations[j].id \in gatedCalls
       /\ \E d \in decisions :
             d.id = invocations[j].id /\ IsApproveResponse(d.v)

\* ------------------------------------------------------------------ C2
\* C2: when the answer delivered for a suspended call is Reject, the tool
\* is never invoked for that call and, once the batch is through, the one
\* ToolResult of that call_id states the rejection.
C2_RejectNeverExecutes ==
  \A d \in decisions :
     d.v = Reject =>
       /\ InvocationsOf(d.id) = {}
       /\ \A j \in ToolResultsOf(d.id) : IsRejectionText(returned[j].content)
       /\ (d.id \in { c.id : c \in ResolvedCalls }
             => Cardinality(ToolResultsOf(d.id)) = 1)

C2_Witness ==
  \E d \in decisions :
     /\ d.v = Reject
     /\ d.id \in { a.call_id : a \in ToSet(approvalRequests) }
     /\ \E j \in ToolResultsOf(d.id) : IsRejectionText(returned[j].content)

\* ------------------------------------------------------------------ C3
\* C3: when the answer is ApproveWithEdits(args'), the empty map included,
\* every invocation of the tool for that call receives exactly args'.
C3_EditedArgsVerbatim ==
  \A d \in decisions :
     (d.v.isCommand /\ d.v.hasResume /\ d.v.type = "edit" /\ d.v.hasArgs) =>
       \A j \in InvocationsOf(d.id) : invocations[j].args = d.v.args

\* ------------------------------------------------------------------ C4
\* C4: the per-operation check is true exactly when the caller's roles
\* share a role with the table's set for the name, and false for every name
\* absent from the table.
C4_AllowedIsIntersection ==
  \A n \in ToolNames :
     /\ n \in DOMAIN TOOL_ROLE_MAP(handler) =>
          ( IsToolAuthorized(handler, n, roles)
              <=> \E r \in Roles :
                     r \in TOOL_ROLE_MAP(handler)[n]
                     /\ \E i \in 1..Len(roles) : roles[i] = r )
     /\ n \notin DOMAIN TOOL_ROLE_MAP(handler) =>
          /\ ~IsToolAuthorized(handler, n, roles)
          /\ (HasAuthz(handler) =>
                \A c \in ResolvedCalls : c.name = n =>
                   InvocationsOf(c.id) = {})

C4_Witness ==
  /\ handler = "agent"
  /\ roles = <<ROLE_ADMIN>>
  /\ \E c1 \in ResolvedCalls, c2 \in ResolvedCalls :
        /\ c1.name = "create_resource" /\ InvocationsOf(c1.id) = {}
        /\ c2.name = "takeAction" /\ InvocationsOf(c2.id) # {}

\* ------------------------------------------------------------------ C5
\* C5: a request whose authorization check is false gets a denial
\* ToolResult, never enters the approval gate and is never invoked.
C5_DeniedNeverRuns ==
  \A c \in RequestedCalls :
     CheckIsFalse(c) =>
       /\ c.id \notin gatedCalls
       /\ InvocationsOf(c.id) = {}
       /\ (c \in ResolvedCalls =>
             \E j \in ToolResultsOf(c.id) : returned[j].content = DeniedText)

\* ------------------------------------------------------------------ C6
\* C6: the operations bound to the oracle are only operations the caller
\* is authorized for; a caller with no authorized operation is offered the
\* empty tool set.
C6_OnlyAuthorizedAdvertised ==
  \A n \in bound :
     IF HasAuthz(handler) THEN IsToolAuthorized(handler, n, roles)
                          ELSE ToSet(roles) # {}

\* ------------------------------------------------------------------ C7
\* C7: the denial ToolResult is one fixed text: it is the same for every
\* denied request and interpolates no operation name.
C7_DenialTextFixed ==
  \A c \in ResolvedCalls :
     (HasAuthz(handler) /\ CheckIsFalse(c)) =>
        \A j \in ToolResultsOf(c.id) :
           /\ returned[j].content = DeniedText
           /\ returned[j].names = {}

C7_Witness ==
  \E c1 \in ResolvedCalls, c2 \in ResolvedCalls :
     /\ HasAuthz(handler)
     /\ c1.name # c2.name
     /\ c1.name \in ServerTools(handler)
     /\ c2.name \notin ServerTools(handler)
     /\ CheckIsFalse(c1) /\ CheckIsFalse(c2)
     /\ ToolResultsOf(c1.id) # {} /\ ToolResultsOf(c2.id) # {}

\* ------------------------------------------------------------------ C8
\* C8: the gate is entered only for mutating (write-detected) operations;
\* an authorized non-mutating operation is executed without an approval
\* request and yields one ToolResult for its call_id.
C8_GateOnlyForMutating ==
  /\ \A c \in RequestedCalls :
        c.id \in gatedCalls => IsWriteOperation(handler, c.name)
  /\ \A c \in ResolvedCalls :
        ( ~IsWriteOperation(handler, c.name) /\ ~CheckIsFalse(c)
          /\ c.name \in ServerTools(handler) ) =>
           /\ InvocationsOf(c.id) # {}
           /\ c.id \notin { a.call_id : a \in ToSet(approvalRequests) }
           /\ Cardinality(ToolResultsOf(c.id)) = 1

\* ------------------------------------------------------------------ C9
\* C9: across suspend and resume every operation request of a turn is
\* executed at most once.
C9_ExecutedAtMostOnce ==
  \A c \in RequestedCalls : Cardinality(InvocationsOf(c.id)) <= 1

\* ----------------------------------------------------------------- C10
\* C10: an approval answer is applied only to the pending request it was
\* given for: the value the gate uses for a call is the value the approver
\* delivered while that call was pending, so that with one call approved
\* and a sibling rejected the approved one runs and the rejected one does
\* not.
C10_AnswerAppliedToItsCall ==
  /\ \A d \in decisions : d \in delivered
  /\ \A d \in decisions :
        (d.v = Approve /\ d.id \in { c.id : c \in ResolvedCalls }) =>
           \A c \in ResolvedCalls :
              (c.id = d.id /\ c.name \in GetTools(handler, roles)) =>
                 InvocationsOf(c.id) # {}

C10_Witness ==
  \E d1 \in decisions, d2 \in decisions :
     /\ d1.v = Approve /\ d2.v = Reject
     /\ d1.id # d2.id
     /\ { d1.id, d2.id } \subseteq { c.id : c \in ResolvedCalls }
     /\ InvocationsOf(d1.id) # {}
     /\ InvocationsOf(d2.id) = {}
     /\ \E j \in ToolResultsOf(d2.id) : IsRejectionText(returned[j].content)

\* ------------------------------------------------ batch-level notions
\* this step is an execution of handle_tool_calls that returned its results
NodeReturned ==
  /\ pc \in {"handle_tool_calls", "interrupted"}
  /\ pc' \notin {"interrupted", "lost"}

\* the ToolMessages the returning execution appended
NewResults == SubSeq(returned', Len(returned) + 1, Len(returned'))

\* the tool invocations the returning execution made
NewInvocations == SubSeq(invocations', Len(invocations) + 1, Len(invocations'))

\* every request of the batch has exactly one of the new ToolMessages
BatchAnswered ==
  \A c \in ToSet(ToolCalls) :
     Cardinality({ j \in 1..Len(NewResults) :
                     NewResults[j].tool_call_id = c.id }) = 1

ExecErrorTexts == {ExecErrorText, ReconExecErrorText}

\* ------------------------------------------------------------------ C11
\* C11: once a turn is suspended at the approval gate, its pending state is
\* never lost: a call the gate suspended on and that has not been answered
\* stays resumable, whatever happens to the serving process meanwhile.
C11_PendingStateNeverLost ==
  \A c \in RequestedCalls :
     ( /\ c.id \in gatedCalls
       /\ c.id \notin swallowed
       /\ ~ \E d \in decisions : d.id = c.id ) => pc = "interrupted"

\* ------------------------------------------------------------------ C12
\* C12: a Reject cancels only the rejected call: when a batch with a
\* rejected call returns, every request of the batch has its own ToolResult
\* and the handler goes back to the oracle; the turn is not ended.
C12_RejectCancelsOnlyItsCall ==
  [][ ( /\ NodeReturned
        /\ \E d \in decisions' :
              d.v = Reject /\ d.id \in { c.id : c \in ToSet(ToolCalls) } )
      => ( /\ BatchAnswered
           /\ (~ HasError(handler, NewResults) => pc' = "call_model") ) ]_vars

\* ------------------------------------------------------------------ C13
\* C13: a failed execution becomes a ToolResult for its call_id carrying an
\* error description, the other requests of the batch are still answered,
\* and the handler goes on to the next oracle call.
C13_ExecutionFailureContinues ==
  [][ NodeReturned =>
        \A i \in 1..Len(NewInvocations) :
           NewInvocations[i].out = "raise" =>
             /\ \E j \in 1..Len(NewResults) :
                   /\ NewResults[j].tool_call_id = NewInvocations[i].id
                   /\ NewResults[j].content \in ExecErrorTexts
             /\ BatchAnswered
             /\ (~ HasError(handler, NewResults) => pc' = "call_model") ]_vars

\* ------------------------------------------------------------------ C14
\* C14: the ToolResults of a processed batch correspond one-to-one to its
\* requests: each call_id of the batch is on exactly one ToolResult and no
\* ToolResult carries a call_id that was not requested.
C14_ToolResultsOneToOne ==
  /\ \A c \in ResolvedCalls : Cardinality(ToolResultsOf(c.id)) = 1
  /\ \A j \in 1..Len(returned) :
        returned[j].tool_call_id \in { c.id : c \in RequestedCalls }

\* ------------------------------------------------------------------ C15
\* C15: the turn ends exactly when the oracle's latest response has no
\* operation request; a response with requests is processed and the oracle
\* is called again with the ToolResults in the history.
C15_EndsExactlyOnZeroRequests ==
  [][ /\ (pc' = "END" =>
            pc = "call_model" /\ messages'[Len(messages')].tool_calls = << >>)
      /\ (NodeReturned =>
            /\ pc' = "call_model"
            /\ \A j \in 1..Len(NewResults) :
                  \E i \in 1..Len(messages') : messages'[i] = NewResults[j]) ]_vars

\* ------------------------------------------------------------------ C16
\* C16: when the oracle call fails, the handler appends one Generated
\* message holding the fallback answer, without operation requests, and the
\* turn ends; no exception leaves call_model.
C16_OracleFailureDegrades ==
  /\ pc # "raised"
  /\ LastMessage.content \in OracleErrorTexts =>
        /\ pc = "END"
        /\ LastMessage.type = "ai"
        /\ LastMessage.tool_calls = << >>
        /\ Len(messages) >= 1

C16_Witness ==
  /\ pc = "END"
  /\ LastMessage.content \in OracleErrorTexts
  /\ returned # << >>

\* ------------------------------------------------------- router notions
\* classify_query has run
Classified == rpc \notin {"request", "classify_query"}

LastRouterMessage == rmessages[Len(rmessages)]

\* the contents with which a turn reports the failed access check: the
\* node's own message, and the join synthesize_results makes of it
DeniedContents ==
  { << AccessDeniedText >>, << " ", AccessDeniedText >>,
    << << "Order Agent: ", AccessDeniedText >> >>,
    << << "NAV Agent: ", AccessDeniedText >> >> }

\* the keywords ROUTER_SYSTEM_PROMPT lists for a route, as word lists
OrderKeywords ==
  { << "upload", "order" >>, << "order", "file" >>, << "submit", "order" >> }
NavKeywords ==
  { << "upload", "nav" >>, << "nav", "file" >>, << "nav", "data" >>,
    << "nav", "ingestion" >> }

\* the keyword rules: the route a text matches, "none" when no rule matches
RuleRoute(text) ==
  IF \E k \in OrderKeywords : Contains(text, k) THEN S_order
  ELSE IF \E k \in NavKeywords : Contains(text, k) THEN S_nav
  ELSE << >>

\* ------------------------------------------------------------------ C17
\* C17: when the classification oracle is unreachable or raises,
\* classify_query still returns "general": no exception leaves it, the
\* decision is an enumerated handler name, and only the general handler
\* is dispatched.
C17_ClassifyFallsBackToGeneral ==
  response.kind = "raise" =>
    /\ route_decision = S_general
    /\ route_decision \in EnumeratedRoutes(router)
    /\ rpc \in {"mcp_agent", "END"}
    /\ loaded \subseteq {"mcp"}

C17_Witness ==
  /\ response.kind = "raise"
  /\ oracleCalls = 1
  /\ rpc = "mcp_agent"

\* ------------------------------------------------------------------ C18
\* C18: for every classifier output that names no enumerated handler, the
\* route decision is "general" and no privileged handler (order, nav,
\* recon) is dispatched.
C18_UnknownOutputGoesGeneral ==
  (Classified /\ response.kind = "text"
     /\ ParseRoute(response.lines) \notin EnumeratedRoutes(router)) =>
    /\ route_decision = S_general
    /\ rpc \notin PrivilegedNodes
    /\ checks \cap { [agent |-> a, ok |-> b] :
                       a \in {"order", "nav", "recon"}, b \in BOOLEAN } = {}

\* ------------------------------------------------------------------ C19
\* C19: a handler's sub-agent is loaded and invoked only after the access
\* check for the caller and that handler has passed; when the check fails
\* the turn ends with an access-denied message and the handler never runs.
C19_SubagentOnlyAfterAccessCheck ==
  /\ \A a \in loaded \cup invoked : [agent |-> a, ok |-> TRUE] \in checks
  /\ \A c \in checks :
        ~ c.ok =>
          /\ loaded = {} /\ invoked = {}
          /\ rpc \in {"synthesize", "END"}
          /\ LastRouterMessage.type = "ai"
          /\ LastRouterMessage.content \in DeniedContents

C19_Witness ==
  /\ rpc = "END"
  /\ router = "src"
  /\ [agent |-> "order", ok |-> FALSE] \in checks
  /\ LastRouterMessage.content = << << "Order Agent: ", AccessDeniedText >> >>

\* ------------------------------------------------------------------ C20
\* C20: classify runs a deterministic keyword rule pass first: when a rule
\* matches the message, the handler is the rule's handler and the oracle is
\* not called.
C20_RuleMatchSkipsOracle ==
  (rpc \in AgentNodes /\ HasHuman(rmessages)
     /\ RuleRoute(rmessages[1].content) # << >>) =>
    /\ oracleCalls = 0
    /\ route_decision = RuleRoute(rmessages[1].content)

\* ------------------------------------------------------------------ C21
\* C21: the user context every authorization decision of a turn reads is
\* exactly the one the request arrived with: nothing replaces or extends
\* it, and an absent context is never replaced by one that carries roles.
C21_UserContextAsSupplied ==
  rpc \notin {"idle", "request"} =>
    /\ user = supplied
    /\ (~ supplied.present => AllRoles(router, user) = {})

ResultValue(field) ==
  CASE field = "order_result" -> order_result
    [] field = "nav_result" -> nav_result
    [] field = "recon_result" -> recon_result
    [] OTHER -> ""

\* the node that has just run answered with its except branch
AnsweredError(a, msgs) ==
  /\ msgs # << >>
  /\ msgs[Len(msgs)].content \in { << a, " agent error: {e}" >>,
                                    << McpErrorText >> }

\* C23: when a handler, the general one included, completes its sub-agent
\* run successfully, the router state takes its output: the handler's
\* result stands in its result field and its final answer is the last of
\* the session messages.
C23_HandlerOutputMerged ==
  [][ \A a \in {"order", "nav", "recon", "mcp"} :
        ( /\ rpc \in AgentNodes
          /\ AgentOf(rpc) = a
          /\ a \in invoked' \ invoked
          /\ ~ AnsweredError(a, rmessages') )
        => /\ ResultField(router, a) # "none"
           /\ ResultValue(ResultField(router, a))' = "{answer}"
           /\ rmessages' # rmessages
           /\ rmessages' # << >>
           /\ rmessages'[Len(rmessages')].type = "ai" ]_vars

\* ------------------------------------------------------------------ C24
IsPrefix(a, b) == Len(a) <= Len(b) /\ SubSeq(b, 1, Len(a)) = a

\* C24: the message list only grows: across every node update of a router
\* graph or of a handler graph the list before the update is a prefix of
\* the list after it.
C24_MessagesOnlyGrow ==
  [][ IsPrefix(rmessages, rmessages') /\ IsPrefix(messages, messages') ]_vars

\* ------------------------------------------------------- memory notions
MemUserIds == { rq.user.user_id : rq \in MemRequests }

\* the keys of the interaction log of a user
InteractionKeys(user_id) ==
  { key \in DOMAIN pgstore : key[1] = InteractionNamespace(user_id) }

\* the turns of a user whose interaction-log put succeeded
LoggedTurns(user_id) ==
  { k \in DOMAIN turns : turns[k].logged /\ turns[k].user.user_id = user_id }

\* turns j and k were in flight at the same time
Concurrent(j, k) ==
  /\ j # k
  /\ j \notin turns[k].before
  /\ k \notin turns[j].before

\* ------------------------------------------------------------------ C25
\* C25: interaction-log writes never collide: no step changes or removes
\* a record the log already holds, and the log of a user holds as many
\* records as puts succeeded for that user, also when the puts come from
\* turns that run concurrently.
C25_InteractionWritesNeverCollide ==
  [][ /\ \A key \in DOMAIN pgstore :
           key \in DOMAIN pgstore' /\ pgstore'[key] = pgstore[key]
      /\ \A u \in MemUserIds :
           Cardinality(InteractionKeys(u))' = Cardinality(LoggedTurns(u))' ]_vars

C25_Witness ==
  \E j \in DOMAIN turns, k \in DOMAIN turns :
     /\ Concurrent(j, k)
     /\ turns[j].user = turns[k].user
     /\ turns[j].logged /\ turns[k].logged
     /\ Cardinality(InteractionKeys(turns[j].user.user_id)) = 2

\* ------------------------------------------------------------------ C26
SamePair(j, k) ==
  /\ turns[j].user.user_id = turns[k].user.user_id
  /\ turns[j].thread_id = turns[k].thread_id

\* turn j wrote the short-term record of its pair, and no turn on the
\* same pair wrote it afterwards
LastSaver(j) ==
  /\ turns[j].saved # 0
  /\ \A l \in DOMAIN turns : SamePair(l, j) => turns[l].saved <= turns[j].saved

ShortTermRecordOf(j) ==
  LET key == MemoryKey(turns[j].user.user_id, turns[j].thread_id)
  IN IF key \in DOMAIN redis THEN redis[key].content ELSE EmptyDict

\* C26: two turns that run concurrently on distinct thread_ids never
\* corrupt each other's short-term record: once both have finished, the
\* record of each (user_id, thread_id) holds what the turn on that pair
\* wrote, not what the other turn wrote.
C26_DistinctThreadsIsolated ==
  \A j \in DOMAIN turns, k \in DOMAIN turns :
     ( /\ Concurrent(j, k)
       /\ turns[j].thread_id # turns[k].thread_id
       /\ turns[j].pc = "done" /\ turns[k].pc = "done"
       /\ LastSaver(j) )
     => ShortTermRecordOf(j) = turns[j].final

\* ------------------------------------------------------------------ C27
FinishPos(j) == CHOOSE i \in DOMAIN finished : finished[i] = j

\* j is the most recent turn on the pair of turn k that had finished when
\* turn k began
MostRecentPrevious(j, k) ==
  /\ j \in turns[k].before
  /\ SamePair(j, k)
  /\ \A l \in turns[k].before : SamePair(l, k) => FinishPos(l) <= FinishPos(j)

\* the context list that carries the value v, as it is or rendered by str
SeedsOf(v) == { << v >>, << PyStr(v) >> }

\* C27: the context seeded at the start of a turn is the result of the
\* most recent previous turn on the same (user_id, thread_id): every turn
\* overwrites the short-term record with its result, and the next turn
\* reads it back before its handler runs (turns with a failing store call
\* set aside).
C27_SeededWithPreviousResult ==
  \A k \in DOMAIN turns : \A j \in DOMAIN turns :
     ( /\ turns[k].response.kind # "denied"
       /\ ~ turns[k].storeFailed
       /\ ~ turns[j].storeFailed
       /\ MostRecentPrevious(j, k) )
     => turns[k].memories \in SeedsOf(turns[j].response.body)

\* ------------------------------------------------------------------ C28
\* store.get(namespace, key).value, or the empty dict when there is none
Get(store, k) == IF k \in DOMAIN store THEN store[k] ELSE EmptyDict

\* save_short_term_memory of v, then at once retrieve_short_term_memory
\* for the same user and thread, neither store call failing
SaveThenRetrieve(u, thread_id, v) ==
  RetrieveShortTermMemory(
    SaveShortTermMemory(redis, u, thread_id, v, TRUE, uuids).store,
    u, thread_id, TRUE)

\* C28: memory round trip: a put of v followed at once by a get of the
\* same key returns v, and saving a short-term value for a
\* (user_id, thread_id) and at once retrieving it for the same pair
\* returns the saved value; checked for the final message of every turn
\* that has saved it.
C28_MemoryRoundTrip ==
  \A k \in DOMAIN turns :
     (turns[k].pc = "done" /\ turns[k].saved # 0) =>
        LET v == turns[k].final
            key == MemoryKey(turns[k].user.user_id, turns[k].thread_id)
        IN /\ Get(Put(redis, key, v), key) = v
           /\ SaveThenRetrieve(turns[k].user, turns[k].thread_id, v) = << v >>

\* ------------------------------------------------------------------ C29
\* the bound on the size of an interaction-log value, in tokens; the
\* answers of the turns grow beyond it
InteractionValueCap == 1

\* C29: every interaction-log record is written with a value capped or
\* truncated to a bounded size: however large the handler result, the
\* value stored under the interactions namespace does not exceed the cap.
C29_InteractionValueCapped ==
  \A key \in DOMAIN pgstore :
     ValueSize(pgstore[key].result) <= InteractionValueCap

\* ------------------------------------------------------------------ C30
\* C30: a failure of the memory store is not fatal: when a store get or
\* put raises during a turn it is only logged, the handler still runs,
\* and the turn returns the handler's response as it would without
\* persisted context: a finished turn that passed its access check and
\* whose sub-agent answered returns that answer, whichever store calls
\* failed, and a failed read seeds no context.
C30_StoreFailureNonFatal ==
  \A k \in DOMAIN turns :
     /\ (turns[k].storeFailed /\ turns[k].pc = "done") =>
           /\ turns[k].response.kind \in {"answer", "error"}
           /\ turns[k].final # EmptyDict =>
                turns[k].response = [kind |-> "answer", body |-> turns[k].final]
           /\ turns[k].response.kind = "error" => turns[k].final = EmptyDict
     /\ (turns[k].storeFailed /\ turns[k].pc = "ainvoke") =>
           turns[k].memories = << >>

C30_Witness ==
  \E k \in DOMAIN turns :
     /\ turns[k].pc = "done"
     /\ turns[k].storeFailed
     /\ turns[k].saved = 0 /\ ~ turns[k].logged
     /\ turns[k].response = [kind |-> "answer", body |-> FinalMessage(AnswerText(k))]

\* ------------------------------------------------------------------ C31
\* turns j and k are of different users on one thread_id
OtherUserSameThread(j, k) ==
  /\ turns[j].user.user_id # turns[k].user.user_id
  /\ turns[j].thread_id = turns[k].thread_id

\* C31: different users have isolated conversations even on one
\* thread_id: a turn is never seeded with what a turn of another user on
\* that thread_id stored, and when it ends it leaves the short-term record
\* of every other user on that thread_id as it was.
C31_UsersIsolatedOnSharedThread ==
  [][ /\ \A k \in DOMAIN turns' : \A j \in DOMAIN turns :
           (k \notin DOMAIN turns /\ OtherUserSameThread(j, k)'
              /\ turns[j].final # EmptyDict)
           => turns'[k].memories \notin SeedsOf(turns[j].final)
      /\ \A k \in DOMAIN turns : \A j \in DOMAIN turns :
           (turns[k].pc = "ainvoke" /\ turns'[k].pc = "done"
              /\ OtherUserSameThread(j, k))
           => LET key == MemoryKey(turns[j].user.user_id, turns[j].thread_id)
              IN /\ key \in DOMAIN redis =>
                      key \in DOMAIN redis' /\ redis'[key] = redis[key]
                 /\ key \notin DOMAIN redis => key \notin DOMAIN redis'
    ]_vars

C31_Witness ==
  \E j \in DOMAIN turns, k \in DOMAIN turns :
     /\ OtherUserSameThread(j, k)
     /\ j \in turns[k].before
     /\ turns[j].saved # 0 /\ turns[k].saved # 0
     /\ turns[k].pc = "done" /\ turns[k].memories = << >>
     /\ ShortTermRecordOf(j) = turns[j].final
     /\ ShortTermRecordOf(k) = turns[k].final

\* =====================================================================
\* pure functions, applied to inputs drawn from bounded sets
\* =====================================================================

\* the handler graph is not running
HandlerIdle ==
  /\ handler = "agent"
  /\ roles = << >>
  /\ messages = << HumanMessage >>
  /\ pc = "idle"
  /\ issued = 0
  /\ bound = {}
  /\ resumes = << >>
  /\ invocations = << >>
  /\ approvalRequests = << >>
  /\ gatedCalls = {}
  /\ decisions = {}
  /\ delivered = {}
  /\ swallowed = {}
  /\ nodeRuns = 0
  /\ requested = {}
  /\ returned = << >>

\* names of read-only operations: those of the unit test, two of
\* TOOL_ROLE_MAP, and four more in the same get/list/fetch/search style
ReadOnlyNames ==
  { <<"g","e","t","_","r","e","s","o","u","r","c","e">>,
    <<"l","i","s","t","_","p","e","t","s">>,
    <<"f","e","t","c","h","_","d","a","t","a">>,
    <<"s","e","a","r","c","h">>,
    <<"g","e","t","P","o","s","i","t","i","o","n">>,
    <<"g","e","t","A","l","l","O","r","d","e","r","S","t","a","t","e","s">>,
    <<"g","e","t","_","a","d","d","r","e","s","s">>,
    <<"l","i","s","t","_","u","p","d","a","t","e","s">>,
    <<"f","e","t","c","h","_","o","u","t","p","u","t">>,
    <<"s","e","a","r","c","h","_","p","o","s","t","s">> }

\* _is_write_operation(tool_name) on the characters of the name
IsWriteText(h, s) ==
  IF h = "recon_s"
    THEN \E kw \in WriteKeywords5 : Contains(Lower(s), kw)
    ELSE \E kw \in WriteKeywords7 : Contains(Lower(s), kw)

WriteCalls ==
  { [fn |-> "_is_write_operation", h |-> h, tool_name |-> n] :
      h \in HandlerNames, n \in ReadOnlyNames }

\* ---- _parse_mcp_servers
\* a key that a JSON object does not have
Missing == "<missing>"

\* the server objects of a configuration: name, type, transport and url
\* are each a string or missing
ServerObjects ==
  [name : {"api1", "api2", Missing}, type : {"http", "sse", Missing},
   transport : {"sse", Missing}, url : {"http://h/sse", Missing}]

WellFormedServers ==
  { sv \in ServerObjects :
      sv.name # Missing /\ sv.type # Missing /\ sv.url # Missing }

\* what the configuration variable holds: nothing, text that is not JSON,
\* JSON that is no object, an object whose "servers" is absent, no list,
\* or a list of server objects (or of something else)
McpConfigs ==
  { [kind |-> k, servers |-> << >>] :
      k \in {"unset", "invalid json", "json array", "no servers key",
             "servers is a number", "servers holds a string"} }
  \cup { [kind |-> "object", servers |-> << sv >>] : sv \in ServerObjects }
  \cup { [kind |-> "object", servers |-> << a, b >>] :
           a \in { sv \in WellFormedServers : sv.name = "api1"
                                              /\ sv.transport = Missing },
           b \in { sv \in WellFormedServers : sv.transport = Missing } }

EmptyServers == [kind |-> "dict", servers |-> EmptyStore]

\* the loop over config.get("servers", []): servers[server["name"]] =
\* {"transport": server.get("transport", "http"), "url": server["url"]};
\* a missing name or url is a KeyError, which is caught with the whole
\* result replaced by {}
RECURSIVE ParseServers(_, _)
ParseServers(list, acc) ==
  IF list = << >> THEN [kind |-> "dict", servers |-> acc]
  ELSE LET sv == Head(list)
       IN IF sv.name = Missing \/ sv.url = Missing THEN EmptyServers
          ELSE ParseServers(Tail(list),
                 Put(acc, sv.name,
                     [transport |-> IF sv.transport = Missing
                                      THEN "http" ELSE sv.transport,
                      url |-> sv.url]))

\* _parse_mcp_servers: only json.JSONDecodeError and KeyError are caught
ParseMcpServers(cfg) ==
  CASE cfg.kind \in {"unset", "no servers key"} -> EmptyServers
    [] cfg.kind = "invalid json" -> EmptyServers
    [] cfg.kind = "json array" -> [kind |-> "raised", servers |-> EmptyStore]
    [] cfg.kind = "servers is a number" ->
         [kind |-> "raised", servers |-> EmptyStore]
    [] cfg.kind = "servers holds a string" ->
         [kind |-> "raised", servers |-> EmptyStore]
    [] OTHER -> ParseServers(cfg.servers, EmptyStore)

ParseCalls == { [fn |-> "_parse_mcp_servers", config |-> c] : c \in McpConfigs }

\* ---- the short-term key of two (user_id, thread_id) pairs
UserIdTexts == { <<"a">>, <<"a",":","2">>, <<"b">> }

KeyCalls ==
  { [fn |-> "memory_key", p1 |-> [user_id |-> u1, thread_id |-> t1],
     p2 |-> [user_id |-> u2, thread_id |-> t2]] :
      u1 \in UserIdTexts, u2 \in UserIdTexts,
      t1 \in ThreadIds, t2 \in ThreadIds }

\* the (namespace, key) save_short_term_memory and
\* retrieve_short_term_memory address for a pair
ShortTermAddress(p) == << << "memory" >>, MemoryKey(p.user_id, p.thread_id) >>

\* ---- _check_agent_access
AgentNameInputs == {"order", "nav", "recon", "mcp", "unknown", ""}

AccessCalls ==
  { [fn |-> "_check_agent_access", r |-> r, user |-> u, agent_name |-> a] :
      r \in RouterNames, u \in UserContexts, a \in AgentNameInputs }

FunctionCalls == WriteCalls \cup ParseCalls \cup KeyCalls \cup AccessCalls

FInit ==
  /\ fcall \in FunctionCalls
  /\ fpc = "input"
  /\ fout = [kind |-> "none"]
  /\ HandlerIdle
  /\ RouterIdle
  /\ MemoryIdle
  /\ SupervisorIdle
  /\ McpAgentIdle

ApplyIsWriteOperation ==
  /\ fpc = "input"
  /\ fcall.fn = "_is_write_operation"
  /\ fout' = [kind |-> "bool", value |-> IsWriteText(fcall.h, fcall.tool_name)]
  /\ fpc' = "done"
  /\ UNCHANGED fcall
  /\ UNCHANGED << hvars, rvars, mvars, svars, avars >>

ApplyParseMcpServers ==
  /\ fpc = "input"
  /\ fcall.fn = "_parse_mcp_servers"
  /\ fout' = ParseMcpServers(fcall.config)
  /\ fpc' = "done"
  /\ UNCHANGED fcall
  /\ UNCHANGED << hvars, rvars, mvars, svars, avars >>

ApplyMemoryKey ==
  /\ fpc = "input"
  /\ fcall.fn = "memory_key"
  /\ fout' = [kind |-> "addresses", a1 |-> ShortTermAddress(fcall.p1),
               a2 |-> ShortTermAddress(fcall.p2)]
  /\ fpc' = "done"
  /\ UNCHANGED fcall
  /\ UNCHANGED << hvars, rvars, mvars, svars, avars >>

ApplyCheckAgentAccess ==
  /\ fpc = "input"
  /\ fcall.fn = "_check_agent_access"
  /\ fout' = [kind |-> "access",
               ok |-> CheckAgentAccess(fcall.r, fcall.user, fcall.agent_name).ok]
  /\ fpc' = "done"
  /\ UNCHANGED fcall
  /\ UNCHANGED << hvars, rvars, mvars, svars, avars >>

FNext ==
  \/ ApplyIsWriteOperation
  \/ ApplyCheckAgentAccess
  \/ ApplyMemoryKey
  \/ ApplyParseMcpServers

FunctionSpec == FInit /\ [][FNext]_vars

\* ------------------------------------------------------------------ C32
\* C32: read operations are not detected as write: for every tool name
\* that denotes a read-only operation (get, list, fetch, search style
\* names) _is_write_operation returns false.
C32_ReadNotDetectedAsWrite ==
  (fpc = "done" /\ fcall.fn = "_is_write_operation"
     /\ fcall.tool_name \in ReadOnlyNames)
  => fout.value = FALSE

\* ------------------------------------------------------------------ C33
\* the configuration lists server objects that each have a name, a type
\* and a url
ValidMcpConfig(cfg) ==
  /\ cfg.kind = "object"
  /\ \A i \in 1..Len(cfg.servers) : cfg.servers[i] \in WellFormedServers

\* the last server listed under the name of server i
LastNamed(cfg, i) ==
  cfg.servers[CHOOSE j \in 1..Len(cfg.servers) :
     /\ cfg.servers[j].name = cfg.servers[i].name
     /\ \A l \in 1..Len(cfg.servers) :
          cfg.servers[l].name = cfg.servers[i].name => l <= j]

\* C33: _parse_mcp_servers maps every server listed in the configuration
\* to an entry under the server's name that carries the server's declared
\* type and url, and returns the empty mapping, without raising, whenever
\* the variable is unset or holds no valid configuration.
C33_ParseMcpServers ==
  (fpc = "done" /\ fcall.fn = "_parse_mcp_servers") =>
     IF ValidMcpConfig(fcall.config)
       THEN /\ fout.kind = "dict"
            /\ \A i \in 1..Len(fcall.config.servers) :
                 LET sv == LastNamed(fcall.config, i)
                 IN /\ sv.name \in DOMAIN fout.servers
                    /\ "type" \in DOMAIN fout.servers[sv.name]
                    /\ fout.servers[sv.name].type = sv.type
                    /\ fout.servers[sv.name].url = sv.url
       ELSE fout = EmptyServers

\* ------------------------------------------------------------------ C34
\* C34: the approval gate is fail-closed: the tool of a call suspended at
\* the gate is invoked only if the value delivered on resume is recognised
\* as an approve or edit decision; every other resume value (no resume
\* payload, another type, a value that is no Command) leaves that call
\* without any execution.
C34_GateFailClosed ==
  \A d \in decisions :
     ~ (d.v.isCommand /\ IsApproval(d.v)) => InvocationsOf(d.id) = {}

\* ------------------------------------------------------------------ C35
\* C35: the short-term store key is an injective function of
\* (user_id, thread_id): two distinct pairs are addressed by different
\* (namespace, key) records, whatever characters the identifiers contain.
C35_ShortTermKeyInjective ==
  (fpc = "done" /\ fcall.fn = "memory_key" /\ fcall.p1 # fcall.p2)
  => fout.a1 # fout.a2

\* ------------------------------------------------------------------ C36
\* the handlers a router knows, and the roles permitted to each
KnownHandlers(r) ==
  IF r = "backend" THEN {"order", "nav", "recon", "mcp"}
                   ELSE {"order", "nav", "mcp"}

PermittedRoles(r, agent_name) ==
  IF r = "backend"
    THEN CASE agent_name = "order" -> {S_ROLE_ADMIN, S_ROLE_DISTRIBUTOR}
           [] agent_name = "nav" -> {S_ROLE_ADMIN, S_ROLE_FUND}
           [] OTHER -> {S_ROLE_ADMIN, S_ROLE_DISTRIBUTOR, S_ROLE_FUND}
    ELSE CASE agent_name = "order" -> {S_admin, S_distributor}
           [] agent_name = "nav" -> {S_admin, S_fundhouse}
           [] OTHER -> {S_admin, S_distributor, S_fundhouse}

\* C36: the coarse-grained handler check is fail-closed: for every user
\* context and agent name, _check_agent_access grants access if and only
\* if the agent name is one of the known handlers and the caller's roles
\* intersect the handler's permitted role set; an unknown agent name or an
\* empty role set is always denied.
C36_AgentAccessFailClosed ==
  (fpc = "done" /\ fcall.fn = "_check_agent_access") =>
     (fout.ok <=>
        /\ fcall.agent_name \in KnownHandlers(fcall.r)
        /\ AllRoles(fcall.r, fcall.user)
             \cap PermittedRoles(fcall.r, fcall.agent_name) # {})

C36_Witness ==
  /\ fpc = "done" /\ fcall.fn = "_check_agent_access"
  /\ fcall.agent_name = "unknown"
  /\ S_ROLE_ADMIN \in AllRoles(fcall.r, fcall.user)
  /\ ~ fout.ok


\* ---------------------------------------------------------------------------
\* The supervisor (src/MCP/supervisor_agent) and the three domain sub-agents
\* behind it.  A tool call of the supervisor carries the caller's scope and the
\* request text to the sub-agent's process_request as one string
\*   SCOPE:<scope>|ROLES:<roles>|REQUEST:<request>
\* which is modelled as the sequence of its "|"-separated parts, each part a
\* recognised prefix (tag) and the rest of the part (text).
\* ---------------------------------------------------------------------------

SubAgents == {"position_agent", "order_details_agent", "order_ingestion_agent"}

\* OrchestratorAgentBuilder.build: scope_mappings
scope_mappings ==
  [a \in SubAgents |->
     CASE a = "position_agent"        -> {"MutualFunds", "Assets", "Wealth"}
       [] a = "order_details_agent"   -> {"MutualFunds", "Assets", "General"}
       [] a = "order_ingestion_agent" -> {"MutualFunds", "Assets", "ACCOUNT_MANAGER"}]

\* each sub-agent module's ALLOWED_SCOPES
ALLOWED_SCOPES ==
  [a \in SubAgents |->
     CASE a = "position_agent"        -> {"MutualFunds", "Assets", "Wealth"}
       [] a = "order_details_agent"   ->
            {"MutualFunds", "Assets", "Wealth", "General", "ACCOUNT_MANAGER"}
       [] a = "order_ingestion_agent" -> {"MutualFunds", "Assets", "ACCOUNT_MANAGER"}]

\* scopes a token can carry; "" is a token without a scope
CallerScopes ==
  {"MutualFunds", "Assets", "Wealth", "General", "ACCOUNT_MANAGER",
   "Retail", "unauthorized", ""}

\* get_user_scope / extract_scope_and_roles: a missing scope reads "unauthorized"
get_user_scope(scope) == IF scope = "" THEN "unauthorized" ELSE scope

Part(tag, text) == [tag |-> tag, text |-> text]

\* request texts of a caller, split at "|"
RequestTexts ==
  { << Part("", "upload f.csv") >>,
    << Part("", "check f.csv") >>,
    << Part("", "upload f.csv if not exists") >>,
    << Part("", "upload it") >>,
    << Part("", "f.csv") >>,
    << Part("", "hello") >>,
    << Part("", "upload f.csv"), Part("SCOPE:", "MutualFunds") >> }

\* direct_agent_tool: scope_payload
scope_payload(current_scope, request) ==
  << Part("SCOPE:", current_scope), Part("ROLES:", ""),
     Part("REQUEST:", request[1].text) >> \o Tail(request)

RECURSIVE LastTagged(_, _, _)
LastTagged(parts, tag, default) ==
  IF parts = << >> THEN default
  ELSE LET rest == LastTagged(Tail(parts), tag, "<none>")
       IN  IF rest # "<none>" THEN rest
           ELSE IF Head(parts).tag = tag THEN Head(parts).text
           ELSE default

\* extract_scope_from_request of each sub-agent: the position agent cuts the
\* string at the first "|REQUEST:" and reads the scope in front of "|ROLES:";
\* the other two walk over all parts and keep the last part starting "SCOPE:"
extract_scope_from_request(agent, payload) ==
  IF agent = "position_agent"
  THEN [scope |-> payload[1].text, request |-> payload[3].text]
  ELSE [scope |-> LastTagged(payload, "SCOPE:", "unknown"),
        request |-> LastTagged(payload, "REQUEST:", "")]

validate_scope(agent, scope) == scope \in ALLOWED_SCOPES[agent]

\* direct_agent_tool: the supervisor's own refusal
SupervisorRefuses(agent, current_scope) ==
  /\ current_scope \notin scope_mappings[agent]
  /\ current_scope # "unauthorized"

\* parse_user_input on the request texts above: is a file name found, is an
\* upload word found, is a check word found
parse_user_input(text) ==
  CASE text = "upload f.csv" ->
         [file_path |-> TRUE, upload_requested |-> TRUE, check_requested |-> FALSE]
    [] text = "check f.csv" ->
         [file_path |-> TRUE, upload_requested |-> FALSE, check_requested |-> TRUE]
    [] text = "upload f.csv if not exists" ->
         [file_path |-> TRUE, upload_requested |-> TRUE, check_requested |-> TRUE]
    [] text = "upload it" ->
         [file_path |-> FALSE, upload_requested |-> TRUE, check_requested |-> FALSE]
    [] text = "f.csv" ->
         [file_path |-> TRUE, upload_requested |-> FALSE, check_requested |-> FALSE]
    [] OTHER ->
         [file_path |-> FALSE, upload_requested |-> FALSE, check_requested |-> FALSE]

\* what the router model may extract when parse_user_input found nothing
LlmExtractions ==
  [file_path : BOOLEAN, upload_requested : BOOLEAN, check_requested : BOOLEAN]

NoExistsResult == [shape |-> "none", key |-> "", flag |-> FALSE]

\* what the fileExists tool may hand back: a bool, a dict with one flag, a
\* string holding such a dict as JSON, or a string that is not JSON
ExistsResults ==
  {NoExistsResult, [shape |-> "str", key |-> "<not json>", flag |-> FALSE]}
  \cup [shape : {"bool"}, key : {""}, flag : BOOLEAN]
  \cup [shape : {"dict", "str"}, key : {"result", "exists", "other"}, flag : BOOLEAN]

DictKeys == {"result", "exists", "fileExists", "existsFlag", "present"}

\* should_upload_after_exists: exists_bool
exists_bool(exists) ==
  CASE exists.shape = "str"  -> exists.key = "result" /\ exists.flag
    [] exists.shape = "dict" -> exists.key \in DictKeys /\ exists.flag
    [] exists.shape = "bool" -> exists.flag
    [] OTHER -> FALSE

should_check(state) ==
  IF state.check_requested \/ state.upload_requested THEN "exists_node" ELSE "END"

should_upload_after_existsAlways(state) ==
  IF state.upload_requested THEN "upload_node" ELSE "END"

should_upload_after_exists(state) ==
  IF state.upload_requested /\ ~ exists_bool(state.exists_result)
  THEN "upload_node" ELSE "END"

SInit ==
  /\ sreq \in [agent : SubAgents, scope : CallerScopes, request : RequestTexts]
  /\ spc = "direct_agent_tool"
  /\ spayload = << >>
  /\ sresp = "none"
  /\ strail = << >>
  /\ sstate = NoCheckUploadState
  /\ HandlerIdle
  /\ RouterIdle
  /\ MemoryIdle
  /\ FunctionIdle
  /\ McpAgentIdle

\* direct_agent_tool up to the call of the sub-agent's process_request
DirectAgentTool ==
  /\ spc = "direct_agent_tool"
  /\ LET current_scope == get_user_scope(sreq.scope)
     IN  IF SupervisorRefuses(sreq.agent, current_scope)
         THEN /\ sresp' = "Unauthorized"
              /\ spc' = "done"
              /\ UNCHANGED spayload
         ELSE /\ spayload' = scope_payload(current_scope, sreq.request)
              /\ spc' = "process_request"
              /\ UNCHANGED sresp
  /\ UNCHANGED << sreq, strail, sstate >>
  /\ UNCHANGED << hvars, rvars, mvars, fvars, avars >>

\* process_request of the sub-agent: scope check, then the domain workflow.
\* The position and order-details workflows are one step here; the
\* order-ingestion workflow is the graph of build_check_and_upload_graph.
ProcessRequest ==
  /\ spc = "process_request"
  /\ LET ex == extract_scope_from_request(sreq.agent, spayload)
     IN  IF ~ validate_scope(sreq.agent, ex.scope)
         THEN /\ sresp' = "Unauthorized"
              /\ spc' = "done"
              /\ UNCHANGED strail
         ELSE IF sreq.agent = "order_ingestion_agent"
         THEN /\ spc' = "parse_node"
              /\ strail' = Append(strail, "workflow")
              /\ UNCHANGED sresp
         ELSE /\ spc' = "done"
              /\ strail' = Append(strail, "workflow")
              /\ sresp' = "data"
  /\ UNCHANGED << sreq, spayload, sstate >>
  /\ UNCHANGED << hvars, rvars, mvars, fvars, avars >>

AfterNode(next) ==
  IF next = "END"
  THEN spc' = "done" /\ sresp' = "data"
  ELSE spc' = next /\ UNCHANGED sresp

parse_node ==
  /\ spc = "parse_node"
  /\ LET text   == extract_scope_from_request(sreq.agent, spayload).request
         parsed == parse_user_input(text)
     IN  \E data \in LlmExtractions :
           /\ (parsed.file_path \/ parsed.upload_requested \/ parsed.check_requested)
                => data = parsed
           /\ sstate' = [file_path |-> data.file_path,
                         upload_requested |-> data.upload_requested,
                         check_requested |-> data.check_requested,
                         exists_result |-> NoExistsResult]
           /\ AfterNode(should_check(sstate'))
  /\ strail' = Append(strail, "parse_node")
  /\ UNCHANGED << sreq, spayload >>
  /\ UNCHANGED << hvars, rvars, mvars, fvars, avars >>

exists_node ==
  /\ spc = "exists_node"
  /\ \E obs \in ExistsResults :
       /\ ~ sstate.file_path => obs = NoExistsResult
       /\ sstate' = [sstate EXCEPT !.exists_result = obs]
       /\ AfterNode(should_upload_after_exists(sstate'))
  /\ strail' = Append(strail, "exists_node")
  /\ UNCHANGED << sreq, spayload >>
  /\ UNCHANGED << hvars, rvars, mvars, fvars, avars >>

upload_node ==
  /\ spc = "upload_node"
  /\ strail' = Append(strail, "upload_node")
  /\ spc' = "done"
  /\ sresp' = "data"
  /\ UNCHANGED << sreq, spayload, sstate >>
  /\ UNCHANGED << hvars, rvars, mvars, fvars, avars >>

SNext ==
  \/ DirectAgentTool
  \/ ProcessRequest
  \/ parse_node
  \/ exists_node
  \/ upload_node

SupervisorSpec == SInit /\ [][SNext]_vars

StepsRun == {strail[i] : i \in DOMAIN strail}

\* C37: a sub-agent's domain workflow has run only for a caller whose scope is
\* in the supervisor's scope mapping for that sub-agent; for every other
\* scope, "unauthorized" and a missing scope included, a finished call has
\* answered Unauthorized and has run no workflow step.
C37_WorkflowOnlyForMappedScope ==
  spc # "idle" =>
    /\ "workflow" \in StepsRun => sreq.scope \in scope_mappings[sreq.agent]
    /\ (spc = "done" /\ sreq.scope \notin scope_mappings[sreq.agent])
         => (sresp = "Unauthorized" /\ strail = << >>)

UploadPositions == {i \in DOMAIN strail : strail[i] = "upload_node"}

MaxTokens == 3
MaxOps == 3

RECURSIVE Flat(_)
Flat(ts) == IF ts = << >> THEN << >> ELSE Head(ts) \o Flat(Tail(ts))

PromptTokens ==
  { <<"1">>, <<" ">>, <<"-">>, <<"t","o">>, <<",">>, <<"a">>,
    <<"T","H","E","N">>, <<"\"","a","\"">> }

Prompts ==
  { Flat(ts) : ts \in UNION { [1..n -> PromptTokens] : n \in 0..MaxTokens } }

Digit == {"0", "1", "2", "3", "4", "5", "6", "7", "8", "9"}
Whitespace == {" "}
WordChars ==
  Digit \cup {"_"} \cup DOMAIN UpperToLower
        \cup {UpperToLower[c] : c \in DOMAIN UpperToLower}

AllIn(s, i, j, set) == \A k \in i..j : s[k] \in set

\* the string `w` stands at position i of s
At(s, i, w) == i + Len(w) - 1 <= Len(s) /\ SubSeq(s, i, i + Len(w) - 1) = w

RangeSeparators ==
  { <<"-">>, <<"t","o">>, <<"t","h","r","o","u","g","h">>, <<"u","n","t","i","l">> }

\* re.search(r'\d+\s*(?:-|to|through|until)\s*\d+', s)
range_pattern(s) ==
  \E a \in 1..Len(s) :
    /\ s[a] \in Digit
    /\ \E b \in (a + 1)..Len(s) :
         /\ AllIn(s, a + 1, b - 1, Whitespace)
         /\ \E w \in RangeSeparators :
              /\ At(s, b, w)
              /\ \E d \in (b + Len(w))..Len(s) :
                   AllIn(s, b + Len(w), d - 1, Whitespace) /\ s[d] \in Digit

\* a quoted item "[^"]+" stands at a..b
Quoted(s, a, b) ==
  /\ a + 1 < b
  /\ s[a] = "\"" /\ s[b] = "\""
  /\ \A k \in (a + 1)..(b - 1) : s[k] # "\""

\* re.search(r'"[^"]+"\s*,\s*"[^"]+"', s)
quoted_list(s) ==
  \E a \in 1..Len(s) :
    /\ s[a] = "\""
    /\ \E b \in (a + 2)..Len(s) :
         /\ Quoted(s, a, b)
         /\ \E c \in (b + 1)..Len(s) :
              /\ s[c] = ","
              /\ AllIn(s, b + 1, c - 1, Whitespace)
              /\ \E d \in (c + 1)..Len(s) :
                   /\ s[d] = "\""
                   /\ AllIn(s, c + 1, d - 1, Whitespace)
                   /\ \E e \in (d + 2)..Len(s) : Quoted(s, d, e)

\* re.search(r'\b\w+\s*,\s*\w+', s)
comma_sep(s) ==
  \E b \in 1..Len(s) :
    /\ s[b] = ","
    /\ \E a \in 1..(b - 1) :
         s[a] \in WordChars /\ AllIn(s, a + 1, b - 1, Whitespace)
    /\ \E c \in (b + 1)..Len(s) :
         s[c] \in WordChars /\ AllIn(s, b + 1, c - 1, Whitespace)

\* CONFIG["mode_selection"]["mode_2_keywords"]
mode_2_keywords ==
  { <<"a","n","d"," ","t","h","e","n">>, <<"t","h","e","n">>,
    <<"m","u","l","t","i","p","l","e">>, <<"c","h","a","i","n">> }

\* analyze_prompt: the first of the two tests that need no LLM
ParameterPattern(prompt) ==
  \/ range_pattern(Lower(Strip(prompt)))
  \/ quoted_list(Strip(prompt))
  \/ comma_sep(Lower(Strip(prompt)))

\* analyze_prompt: any(k in prompt_lower for k in keywords)
KeywordMatch(prompt) ==
  \E k \in mode_2_keywords : Contains(Lower(Strip(prompt)), k)

\* the classification LLM: not initialised, failing when invoked, or answering
LlmAnswers ==
  { <<"m","o","d","e","_","1">>, <<"m","o","d","e","_","2">>,
    <<"M","o","d","e"," ","2">>, <<" ","M","O","D","E","-","1">>,
    <<"m","o","d","e","2">>, <<"s","i","n","g","l","e">>, << >> }

LlmOutcomes ==
  { [kind |-> "absent", content |-> << >>], [kind |-> "raises", content |-> << >>] }
  \cup [kind : {"answer"}, content : LlmAnswers]

\* _invoke_llm: the stripped, lower-cased answer; "" when the call fails
invoke_llm(llm) ==
  IF llm.kind = "answer" THEN Lower(Strip(llm.content)) ELSE << >>

Remove(s, ch) == SelectSeq(s, LAMBDA c : c # ch)

\* response.replace(" ", "").replace("-", "").lower().strip()
Normalised(answer) == Strip(Lower(Remove(Remove(answer, " "), "-")))

\* analyze_prompt: what the answer of the LLM is taken for
ClassifyAnswer(answer) ==
  LET norm == Normalised(answer)
  IN  IF Contains(norm, <<"m","o","d","e","2">>) THEN "mode_2"
      ELSE IF \/ Contains(norm, <<"m","o","d","e","_","1">>)
              \/ Contains(norm, <<"m","o","d","e","1">>) THEN "mode_1"
      ELSE "mode_2"

analyze_promptLlmFirst(prompt, llm) ==
  IF llm.kind = "absent"
  THEN [mode |-> IF ParameterPattern(prompt) \/ KeywordMatch(prompt)
                 THEN "mode_2" ELSE "mode_1", llm_calls |-> 0]
  ELSE [mode |-> ClassifyAnswer(invoke_llm(llm)), llm_calls |-> 1]

analyze_prompt(prompt, llm) ==
  IF ParameterPattern(prompt) THEN [mode |-> "mode_2", llm_calls |-> 0]
  ELSE IF KeywordMatch(prompt) THEN [mode |-> "mode_2", llm_calls |-> 0]
  ELSE IF llm.kind = "absent" THEN [mode |-> "mode_1", llm_calls |-> 0]
  ELSE [mode |-> ClassifyAnswer(invoke_llm(llm)), llm_calls |-> 1]

AnalyzeCalls ==
  [fn : {"analyze_prompt"}, prompt : Prompts, llm : LlmOutcomes]

Operations == [i \in 1..MaxOps |-> << "operation", i >>]

\* what parse_sequential_query may give: a list of operations, empty included
WorkflowCalls ==
  [fn : {"execute_multi_stage_workflow"}, api_specs : BOOLEAN, endpoints : BOOLEAN,
   operations : {SubSeq(Operations, 1, n) : n \in 0..MaxOps}]

\* one pass of the loop of execute_multi_stage_workflow over `operation`:
\* planned is whether _llm_plan_operation gave an endpoint, success is
\* result["success"] of execute_api_call
StageStopOnFailure(w, operation, planned, success) ==
  LET ok == planned /\ success
  IN  [w EXCEPT
        !.stages = Append(@, [stage |-> w.stage_num, operation |-> operation,
                             status |-> IF ok THEN "completed" ELSE "failed"]),
        !.errors = IF ok THEN @ ELSE Append(@, operation),
        !.combined_data = IF ok THEN Append(@, operation) ELSE @,
        !.stage_num = IF ok THEN @ + 1 ELSE MaxOps + 2]

Stage(w, operation, planned, success) ==
  IF ~ planned
  THEN [w EXCEPT
         !.stages = Append(@, [stage |-> w.stage_num, operation |-> operation,
                              status |-> "failed"]),
         !.errors = Append(@, operation),
         !.stage_num = @ + 1]
  ELSE [w EXCEPT
         !.stages = Append(@, [stage |-> w.stage_num, operation |-> operation,
                              status |-> IF success THEN "completed" ELSE "failed"]),
         !.combined_data = IF success THEN Append(@, operation) ELSE @,
         !.errors = IF success THEN @ ELSE Append(@, operation),
         !.stage_num = @ + 1]

\* execute_multi_stage_workflow: results["final_result"] after the loop
FinalResult(w) ==
  [success_count |-> Len(w.combined_data),
   failed_count |-> Len(w.stages) - Len(w.combined_data)]

AInit ==
  /\ acall \in AnalyzeCalls \cup WorkflowCalls
  /\ apc = "input"
  /\ aout = NoMode
  /\ wf = NoWorkflow
  /\ HandlerIdle
  /\ RouterIdle
  /\ MemoryIdle
  /\ FunctionIdle
  /\ SupervisorIdle

AnalyzePrompt ==
  /\ apc = "input"
  /\ acall.fn = "analyze_prompt"
  /\ LET res == analyze_prompt(acall.prompt, acall.llm)
     IN  aout' = [aout EXCEPT !.mode = res.mode, !.llm_calls = res.llm_calls]
  /\ apc' = "route"
  /\ UNCHANGED << acall, wf >>
  /\ UNCHANGED << hvars, rvars, mvars, fvars, svars >>

\* ModeSelector.route: the handler chosen for the mode
Route ==
  /\ apc = "route"
  /\ aout' = [aout EXCEPT
               !.handler = IF aout.mode = "mode_2" THEN "handle_mode_2"
                           ELSE "handle_mode_1"]
  /\ apc' = "returned"
  /\ UNCHANGED << acall, wf >>
  /\ UNCHANGED << hvars, rvars, mvars, fvars, svars >>

\* execute_multi_stage_workflow up to the loop: the two early returns
LoadSpecs ==
  /\ apc = "input"
  /\ acall.fn = "execute_multi_stage_workflow"
  /\ IF ~ acall.api_specs
     THEN /\ wf' = [wf EXCEPT !.final_result = [summary |-> "No API specs loaded"]]
          /\ apc' = "returned"
     ELSE IF ~ acall.endpoints
     THEN /\ wf' = [wf EXCEPT !.final_result = [summary |-> "No endpoints found"]]
          /\ apc' = "returned"
     ELSE /\ apc' = "loop"
          /\ UNCHANGED wf
  /\ UNCHANGED << acall, aout >>
  /\ UNCHANGED << hvars, rvars, mvars, fvars, svars >>

RunStage ==
  /\ apc = "loop"
  /\ wf.stage_num <= Len(acall.operations)
  /\ \E planned \in BOOLEAN, success \in BOOLEAN :
       wf' = Stage(wf, acall.operations[wf.stage_num], planned, success)
  /\ UNCHANGED << acall, apc, aout >>
  /\ UNCHANGED << hvars, rvars, mvars, fvars, svars >>

FinishWorkflow ==
  /\ apc = "loop"
  /\ wf.stage_num > Len(acall.operations)
  /\ wf' = [wf EXCEPT !.final_result = FinalResult(wf)]
  /\ apc' = "returned"
  /\ UNCHANGED << acall, aout >>
  /\ UNCHANGED << hvars, rvars, mvars, fvars, svars >>

ANext ==
  \/ AnalyzePrompt
  \/ Route
  \/ LoadSpecs
  \/ RunStage
  \/ FinishWorkflow

McpAgentSpec == AInit /\ [][ANext]_vars

Modes == {"mode_1", "mode_2"}

\* C39: analyze_prompt returns mode_2 with no LLM invocation whenever a
\* parameter pattern or a mode-2 keyword matches the prompt, invokes the LLM
\* only when neither matches, and for every prompt and every LLM outcome
\* (absent, failing, any answer) returns mode_1 or mode_2; route then runs the
\* handler of that mode.
C39_TwoTierTotalClassifier ==
  (acall.fn = "analyze_prompt" /\ apc \in {"route", "returned"}) =>
    /\ aout.mode \in Modes
    /\ (ParameterPattern(acall.prompt) \/ KeywordMatch(acall.prompt))
         => (aout.mode = "mode_2" /\ aout.llm_calls = 0)
    /\ aout.llm_calls = 1
         => /\ ~ ParameterPattern(acall.prompt)
            /\ ~ KeywordMatch(acall.prompt)
            /\ acall.llm.kind # "absent"
    /\ apc = "returned"
         => aout.handler = IF aout.mode = "mode_2" THEN "handle_mode_2"
                           ELSE "handle_mode_1"

C39_Witness ==
  /\ acall.fn = "analyze_prompt"
  /\ apc = "returned"
  /\ KeywordMatch(acall.prompt)
  /\ ~ ParameterPattern(acall.prompt)
  /\ acall.llm.kind = "answer"
  /\ ClassifyAnswer(invoke_llm(acall.llm)) = "mode_1"
  /\ aout.mode = "mode_2"

ParsedOperations ==
  acall.fn = "execute_multi_stage_workflow" /\ acall.api_specs /\ acall.endpoints

\* C40: once the operations are parsed, the stage records are one per
\* operation handled so far, numbered and in operation order, whatever the
\* outcome of each stage; the returned result has one record per operation
\* and success_count + failed_count equal to the number of records.
C40_OneStagePerOperation ==
  (ParsedOperations /\ apc \in {"loop", "returned"}) =>
    /\ Len(wf.stages) <= Len(acall.operations)
    /\ \A i \in DOMAIN wf.stages :
         wf.stages[i].stage = i /\ wf.stages[i].operation = acall.operations[i]
    /\ apc = "returned" =>
         /\ Len(wf.stages) = Len(acall.operations)
         /\ wf.final_result.success_count + wf.final_result.failed_count
              = Len(wf.stages)

C40_Witness ==
  /\ ParsedOperations
  /\ apc = "returned"
  /\ Len(wf.stages) >= 2
  /\ wf.stages[1].status = "failed"
  /\ wf.stages[2].status = "completed"
  /\ wf.final_result.success_count = 1

====
